---- MODULE Spec2Model ----
(***************************************************************************)
(* Keenetic NDMS RCI client: the session handshake, the retry-once request *)
(* layer and the batched route mutation protocol.                          *)
(*                                                                         *)
(* The client is single-threaded; the router is the environment.  Every    *)
(* HTTP exchange (request sent, response received) is one step, and the    *)
(* router's answer is chosen nondeterministically.  `log' is the wire as   *)
(* the router sees it during the current top-level call.                   *)
(***************************************************************************)
EXTENDS Integers, Sequences, FiniteSets, TLC

VARIABLES
    authed,   \* Client.authed
    pc,       \* position of the client: idle, probe, post, data, ret, done
    op,       \* frame of the top-level call (GetRoutes, DeleteAllRoutes, AddRoutes)
    req,      \* frame of Client.Request: query, body, which doRequest is next
    hdr,      \* realm and challenge read from the 401 probe (locals of auth)
    log,      \* HTTP exchanges of the current top-level call, in order
    base,     \* length of log when the current Request was entered
    res,      \* what the last Request returned
    ret,      \* what the last top-level call returned
    fn,       \* the function of the routes packages that was applied, "" if none
    arg,      \* the input it is applied to
    val       \* what it returned

vars == <<authed, pc, op, req, hdr, log, base, res, ret, fn, arg, val>>

\* the state of the client, and the application of a function
cvars == <<authed, pc, op, req, hdr, log, base, res, ret>>
fvars == <<fn, arg, val>>

----------------------------------------------------------------------------
(* Bounds of the model *)

\* AddRoutes is called with lists that end at most MaxExtra entries after a
\* batch boundary ...
MaxExtra == 5
\* ... and MaxBatches full batches before them.
MaxBatches == 1

\* Program constants
routeBatchSize == 50
StatusOK == 200
StatusUnauthorized == 401
\* statuses that are neither 200 nor 401
OtherStatuses == {403, 500}

----------------------------------------------------------------------------
(* Text values.  An address string is modelled by what it parses to:       *)
(*   ""                  [t |-> "",       a |-> <<>>,        p |-> 0]      *)
(*   "a.b.c.d"           [t |-> "ip4",    a |-> <<a,b,c,d>>, p |-> 0]      *)
(*   "a.b.c.d/p"         [t |-> "cidr4",  a |-> <<a,b,c,d>>, p |-> p]      *)
(*   "::ffff:a.b.c.d"    [t |-> "ip4m",   a |-> <<a,b,c,d>>, p |-> 0]      *)
(*   "::ffff:a.b.c.d/p"  [t |-> "cidr4m", a |-> <<a,b,c,d>>, p |-> p]      *)
(*   IPv6 address n      [t |-> "ip6",    a |-> <<n>>,       p |-> 0]      *)
(*   IPv6 network n/p    [t |-> "cidr6",  a |-> <<n>>,       p |-> p]      *)
(*   other text n        [t |-> "junk",   a |-> <<n>>,       p |-> 0]      *)
(*   text with "/" that is no CIDR   [t |-> "junk/", ...]                  *)
(* and the same text inside white space has t |-> " ip4 " and so on.       *)
(* IPv6 address 0 is "::".  Prefix lengths of the IPv4 forms are 0..32     *)
(* ("10.0.0.0/33" is a "junk/").  Two strings are equal iff their records  *)
(* are.                                                                    *)

EmptyText == [t |-> "", a |-> <<>>, p |-> 0]
Ip4(a) == [t |-> "ip4", a |-> a, p |-> 0]
Cidr4(a, p) == [t |-> "cidr4", a |-> a, p |-> p]
Ip4In6(a) == [t |-> "ip4m", a |-> a, p |-> 0]
Cidr4In6(a, p) == [t |-> "cidr4m", a |-> a, p |-> p]
Ip6(n) == [t |-> "ip6", a |-> <<n>>, p |-> 0]
Cidr6(n, p) == [t |-> "cidr6", a |-> <<n>>, p |-> p]
Junk(n) == [t |-> "junk", a |-> <<n>>, p |-> 0]
JunkSlash == [t |-> "junk/", a |-> <<>>, p |-> 0]

TextKinds == {"", "ip4", "cidr4", "ip4m", "cidr4m", "ip6", "cidr6", "junk", "junk/"}

\* the text s with white space around it
Padded(s) == [s EXCEPT !.t = " " \o s.t \o " "]

\* strings.TrimSpace(s)
TrimSpace(s) ==
    IF \E k \in TextKinds : s.t = " " \o k \o " "
    THEN [s EXCEPT !.t = CHOOSE k \in TextKinds : s.t = " " \o k \o " "]
    ELSE s

\* Comments, gateways and interfaces are strings that are compared and
\* copied but not parsed.  PadString(w) is w with white space around it;
\* the strings of the model without white space around them are the Words.
Words ==
    {"", "test", "vpn", "none", "both", "bad", "dns", "lan", "mapped", "v6",
     "v6net", "10.0.0.1", "Wireguard0"}
PadString(w) == " " \o w \o " "

\* strings.TrimSpace of such a string
TrimString(s) ==
    IF \E w \in Words : s = PadString(w)
    THEN CHOOSE w \in Words : s = PadString(w)
    ELSE s

\* strings.Contains(s, "/")
ContainsSlash(s) == TrimSpace(s).t \in {"cidr4", "cidr4m", "cidr6", "junk/"}

Pow2(n) == 2 ^ n

\* number of mask bits that fall into octet j (1..4) of a p-bit mask
OctetBits(p, j) ==
    LET k == p - 8 * (j - 1)
    IN  IF k < 0 THEN 0 ELSE IF k > 8 THEN 8 ELSE k

\* net.CIDRMask(p, 32) as four octets
CIDRMask(p) == [j \in 1..4 |-> 256 - Pow2(8 - OctetBits(p, j))]

\* ip.Mask(mask): the network address
MaskIP(a, p) == [j \in 1..4 |-> a[j] - (a[j] % Pow2(8 - OctetBits(p, j)))]

\* net.ParseIP(s) != nil, and net.ParseIP(s).To4() != nil: the IPv4-mapped
\* form is kept in 16 bytes, which To4 takes for IPv4
ParsesIP(s) == s.t \in {"ip4", "ip4m", "ip6"}
IPTo4(s) == s.t \in {"ip4", "ip4m"}

\* net.ParseIP(s).String(): an IPv4-mapped address prints dotted
IPString(s) == IF IPTo4(s) THEN Ip4(s.a) ELSE s

\* net.ParseCIDR(s) succeeds, and the address it returns has To4() != nil
ParsesCIDR(s) == s.t \in {"cidr4", "cidr4m", "cidr6"}
CIDRTo4(s) == s.t \in {"cidr4", "cidr4m"}

\* ipNet.IP.String() of net.ParseCIDR(s).  The mask of "::ffff:a.b.c.d/p" is
\* one of 128 bits, and its p <= 32 leading bits of the address are all zero.
CIDRNetwork(s) ==
    CASE s.t = "cidr4" -> Ip4(MaskIP(s.a, s.p))
      [] s.t = "cidr4m" -> Ip6(0)
      [] OTHER -> Ip6(s.a[1])

\* net.IP(ipNet.Mask).String() of net.ParseCIDR(s): a 128-bit mask prints as
\* the IPv6 address of its bytes, written [t |-> "ip6", a |-> <<0>>, p |-> p]
CIDRMaskText(s) ==
    IF s.t = "cidr4" THEN Ip4(CIDRMask(s.p))
    ELSE [t |-> "ip6", a |-> <<0>>, p |-> s.p]

\* ipNet.String() of net.ParseCIDR(s)
CIDRString(s) ==
    CASE s.t = "cidr4" -> Cidr4(MaskIP(s.a, s.p), s.p)
      [] s.t = "cidr4m" -> Cidr6(0, s.p)
      [] OTHER -> s

----------------------------------------------------------------------------
(* Digests.  A string is a sequence of tokens, concatenation is \o, and a   *)
(* hash is an injective constructor over its input.                        *)

MD5Hex(s) == <<"md5hex(">> \o s \o <<")">>
SHA256Hex(s) == <<"sha256hex(">> \o s \o <<")">>

Login == "user"
Password == "pass"
\* the X-NDM-Realm and X-NDM-Challenge headers of a 401 probe answer; "" is a
\* header that is missing
ProbeHeaders ==
    {<<"realm", "challenge">>, <<"realm2", "challenge2">>,
     <<"", "challenge">>, <<"realm", "">>, <<"", "">>}

----------------------------------------------------------------------------
(* Route records *)

\* keenetic.Route: every field is a pointer, <<>> is nil and <<v>> points to v
NilRoute ==
    [Host |-> <<>>, Network |-> <<>>, IP |-> <<>>, Mask |-> <<>>,
     Prefix |-> <<>>, PrefixLen |-> <<>>, Comment |-> <<>>, Gateway |-> <<>>,
     Interface |-> <<>>, Auto |-> <<>>, Reject |-> <<>>, No |-> <<>>]

\* routes.Route, the canonical route
DomainRoute(host, comment, gateway, iface, auto, reject) ==
    [Host |-> host, Comment |-> comment, Gateway |-> gateway,
     Interface |-> iface, Auto |-> auto, Reject |-> reject]

routeEnvelope(route) == [ip |-> [route |-> route]]

saveConfigPayload == [system |-> [configuration |-> [save |-> TRUE]]]

IsSave(el) == "system" \in DOMAIN el /\ el = saveConfigPayload
IsEnvelope(el) == DOMAIN el = {"ip"}

\* buildRoute that leaves out the mask of a CIDR
buildRouteNoMask(e) ==
    LET route0 == [NilRoute EXCEPT !.Auto = <<e.Auto>>, !.Comment = <<e.Comment>>]
        route1 == IF ContainsSlash(e.Host)
                  THEN [route0 EXCEPT !.Network = <<CIDRNetwork(e.Host)>>]
                  ELSE [route0 EXCEPT !.Host = <<e.Host>>]
        route2 == IF e.Reject THEN [route1 EXCEPT !.Reject = <<TRUE>>] ELSE route1
        route3 == IF e.Gateway # "" THEN [route2 EXCEPT !.Gateway = <<e.Gateway>>]
                  ELSE route2
        route4 == IF e.Interface # "" THEN [route3 EXCEPT !.Interface = <<e.Interface>>]
                  ELSE route3
    IN  IF ContainsSlash(e.Host) /\ ~ParsesCIDR(e.Host)
        THEN [err |-> "invalid CIDR", route |-> NilRoute]
        ELSE [err |-> "", route |-> route4]

\* buildRoute that sets host for every destination
buildRouteHostToo(e) ==
    LET route0 == [NilRoute EXCEPT !.Auto = <<e.Auto>>, !.Comment = <<e.Comment>>,
                                   !.Host = <<e.Host>>]
        route1 == IF ContainsSlash(e.Host)
                  THEN [route0 EXCEPT
                          !.Network = <<CIDRNetwork(e.Host)>>,
                          !.Mask = <<CIDRMaskText(e.Host)>>]
                  ELSE route0
        route2 == IF e.Reject THEN [route1 EXCEPT !.Reject = <<TRUE>>] ELSE route1
        route3 == IF e.Gateway # "" THEN [route2 EXCEPT !.Gateway = <<e.Gateway>>]
                  ELSE route2
        route4 == IF e.Interface # "" THEN [route3 EXCEPT !.Interface = <<e.Interface>>]
                  ELSE route3
    IN  IF ContainsSlash(e.Host) /\ ~ParsesCIDR(e.Host)
        THEN [err |-> "invalid CIDR", route |-> NilRoute]
        ELSE [err |-> "", route |-> route4]

\* buildRoute: [err |-> "" or the error, route |-> the wire record]
buildRoute(e) ==
    LET route0 == [NilRoute EXCEPT !.Auto = <<e.Auto>>, !.Comment = <<e.Comment>>]
        cidrOk == ParsesCIDR(e.Host)
        route1 == IF ContainsSlash(e.Host)
                  THEN [route0 EXCEPT
                          !.Network = <<CIDRNetwork(e.Host)>>,
                          !.Mask = <<CIDRMaskText(e.Host)>>]
                  ELSE [route0 EXCEPT !.Host = <<e.Host>>]
        route2 == IF e.Reject THEN [route1 EXCEPT !.Reject = <<TRUE>>] ELSE route1
        route3 == IF e.Gateway # "" THEN [route2 EXCEPT !.Gateway = <<e.Gateway>>]
                  ELSE route2
        route4 == IF e.Interface # "" THEN [route3 EXCEPT !.Interface = <<e.Interface>>]
                  ELSE route3
    IN  IF ContainsSlash(e.Host) /\ ~cidrOk
        THEN [err |-> "invalid CIDR", route |-> NilRoute]
        ELSE [err |-> "", route |-> route4]

----------------------------------------------------------------------------
(* The router's answers *)

NoData == [ok |-> FALSE, routes |-> <<>>]

\* an HTTP response; err = TRUE is a transport failure (no response at all)
Response(err, status, realm, challenge, data) ==
    [err |-> err, status |-> status, realm |-> realm, challenge |-> challenge,
     data |-> data]

TransportError == Response(TRUE, 0, "", "", NoData)
Status(st) == Response(FALSE, st, "", "", NoData)

\* GET /auth: 200, 401 with or without each header, another status, no answer
ProbeResponses ==
    {TransportError, Status(StatusOK)}
    \cup {Status(st) : st \in OtherStatuses}
    \cup {Response(FALSE, StatusUnauthorized, h[1], h[2], NoData) : h \in ProbeHeaders}

\* POST /auth
PostResponses ==
    {TransportError, Status(StatusOK), Status(StatusUnauthorized)}
    \cup {Status(st) : st \in OtherStatuses}

\* records as decoded from GET rci/ip/route
WireHost(h, comment) == [NilRoute EXCEPT !.Host = <<h>>, !.Comment = <<comment>>]
WireNet(n, m, comment) ==
    [NilRoute EXCEPT !.Network = <<n>>, !.Mask = <<m>>, !.Comment = <<comment>>]

RouteLists ==
    { <<>>,
      <<WireHost(Ip4(<<8, 8, 8, 8>>), "test")>>,
      <<WireHost(Ip4(<<8, 8, 8, 8>>), "test"),
        WireNet(Ip4(<<192, 168, 0, 0>>), Ip4(<<255, 255, 255, 0>>), "lan")>>,
      <<WireHost(Ip6(1), "v6"), WireHost(Ip4(<<8, 8, 8, 8>>), "test")>> }

\* bodies of a 200 answer: a route array for rci/ip/route (or bytes that do not
\* decode), anything for rci/
Bodies(query) ==
    IF query = "rci/ip/route"
    THEN {[ok |-> TRUE, routes |-> l] : l \in RouteLists} \cup {NoData}
    ELSE {NoData}

DataResponses(query) ==
    {TransportError, Status(StatusUnauthorized)}
    \cup {Status(st) : st \in OtherStatuses}
    \cup {Response(FALSE, StatusOK, "", "", d) : d \in Bodies(query)}

----------------------------------------------------------------------------
(* The wire *)

NoPassword == <<>>

\* one exchange: the request as sent and the answer received
Exchange(method, path, login, password, payload, resp) ==
    [method |-> method, path |-> path, login |-> login, password |-> password,
     payload |-> payload, resp |-> resp]

IsAuth(x) == x.path = "/auth"
IsProbe(x) == x.path = "/auth" /\ x.method = "GET"
IsAuthPost(x) == x.path = "/auth" /\ x.method = "POST"
IsData(x) == x.path # "/auth"
IsMutation(x) == x.path = "rci/" /\ x.method = "POST"

----------------------------------------------------------------------------
(* Frames *)

NoOp == [name |-> "none", stage |-> "", entries |-> <<>>, i |-> 0]
NoReq == [query |-> "", hasBody |-> FALSE, payload |-> <<>>, attempt |-> 0]
NoHdr == [realm |-> "", challenge |-> ""]
NoRes == [err |-> "", data |-> NoData]
\* result of a top-level call: err = "" is success; cause is the wrapped error,
\* at the number printed by "add routes batch at %d"
Result(err, cause, at, routes) ==
    [err |-> err, cause |-> cause, at |-> at, routes |-> routes]
NoRet == Result("", "", 0, <<>>)

ClientInit ==
    /\ authed = FALSE
    /\ pc = "idle"
    /\ op = NoOp
    /\ req = NoReq
    /\ hdr = NoHdr
    /\ log = <<>>
    /\ base = 0
    /\ res = NoRes
    /\ ret = NoRet

Init ==
    /\ ClientInit
    /\ fn = ""
    /\ arg = <<>>
    /\ val = <<>>

----------------------------------------------------------------------------
(* Client.auth and Client.Request *)

\* AuthBody with the digest taken over the password itself, not over its MD5
AuthBodyNoMD5(login, password, realm, challenge) ==
    [login |-> login, password |-> SHA256Hex(<<challenge>> \o <<password>>)]

\* the JSON body of POST /auth
AuthBody(login, password, realm, challenge) ==
    [login |-> login,
     password |-> SHA256Hex(<<challenge>> \o MD5Hex(<<login, ":", realm, ":", password>>))]

\* AuthEntry that never runs the handshake
AuthEntryNever(a) == "data"

\* AuthEntry without the check of the session flag: auth() always probes
AuthEntryAlwaysProbe(a) == "probe"

\* auth() returns at once when the session is authenticated, else it probes
AuthEntry(a) == IF a THEN "data" ELSE "probe"

\* ProbeOutcome without the 200 shortcut: every probe goes on to the POST
ProbeOutcomeNoShortcut(r) ==
    IF r.err THEN "auth GET"
    ELSE IF r.status \notin {StatusOK, StatusUnauthorized}
    THEN "auth GET: unexpected status"
    ELSE IF r.status = StatusUnauthorized /\ (r.realm = "" \/ r.challenge = "")
    THEN "auth: missing X-NDM-Realm or X-NDM-Challenge"
    ELSE "challenge"

\* what auth() makes of the answer to GET /auth: "authed", "challenge" (go on
\* to the POST) or the error it returns
ProbeOutcome(r) ==
    IF r.err THEN "auth GET"
    ELSE IF r.status = StatusOK THEN "authed"
    ELSE IF r.status # StatusUnauthorized THEN "auth GET: unexpected status"
    ELSE IF r.realm = "" \/ r.challenge = ""
    THEN "auth: missing X-NDM-Realm or X-NDM-Challenge"
    ELSE "challenge"

\* PostOutcome that does not look at the status
PostOutcomeAnyStatus(r) == IF r.err THEN "auth POST" ELSE "authed"

\* what auth() makes of the answer to POST /auth: "authed" or the error
PostOutcome(r) ==
    IF r.err THEN "auth POST"
    ELSE IF r.status # StatusOK THEN "auth POST: status"
    ELSE "authed"

\* DataOutcome that retries after every first answer that is not 200
DataOutcomeRetryAny(r, attempt) ==
    IF r.err THEN "request"
    ELSE IF r.status # StatusOK /\ attempt = 1 THEN "retry"
    ELSE IF r.status # StatusOK THEN "request status"
    ELSE "ok"

\* DataOutcome that retries on every 401, not only on the first
DataOutcomeRetryAlways(r, attempt) ==
    IF r.err THEN "request"
    ELSE IF r.status = StatusUnauthorized THEN "retry"
    ELSE IF r.status # StatusOK THEN "request status"
    ELSE "ok"

\* what Request makes of the result of doRequest number attempt: "retry"
\* (invalidate, handshake, send again), "ok", or the error it returns
DataOutcome(r, attempt) ==
    IF r.err THEN "request"
    ELSE IF r.status = StatusUnauthorized /\ attempt = 1 THEN "retry"
    ELSE IF r.status # StatusOK THEN "request status"
    ELSE "ok"

Min(a, b) == IF a < b THEN a ELSE b

\* the least element of a set of numbers
First(S) == CHOOSE k \in S : \A j \in S : k <= j

\* Request(query, body) is entered with lg on the wire
EnterRequest(query, hasBody, payload, lg) ==
    /\ req' = [query |-> query, hasBody |-> hasBody, payload |-> payload, attempt |-> 1]
    /\ log' = lg
    /\ base' = Len(lg)
    /\ hdr' = NoHdr
    /\ res' = NoRes
    /\ pc' = AuthEntry(authed)
    /\ UNCHANGED authed

\* Request returns (err, data) to its caller
RequestReturns(err, data) ==
    /\ pc' = "ret"
    /\ res' = [err |-> err, data |-> data]
    /\ hdr' = NoHdr

\* GET /auth and what auth() does with the answer
AuthProbe ==
    /\ UNCHANGED fvars
    /\ pc = "probe"
    /\ \E r \in ProbeResponses :
        LET out == ProbeOutcome(r)
        IN  /\ log' = Append(log, Exchange("GET", "/auth", "", NoPassword, <<>>, r))
            /\ IF out = "authed"
               THEN authed' = TRUE /\ pc' = "data" /\ UNCHANGED <<hdr, res>>
               ELSE IF out = "challenge"
               THEN /\ hdr' = [realm |-> r.realm, challenge |-> r.challenge]
                    /\ pc' = "post"
                    /\ UNCHANGED <<authed, res>>
               ELSE RequestReturns(out, NoData) /\ UNCHANGED authed
    /\ UNCHANGED <<op, req, base, ret>>

\* POST /auth with the digest and what auth() does with the answer
AuthPost ==
    /\ UNCHANGED fvars
    /\ pc = "post"
    /\ \E r \in PostResponses :
        LET body == AuthBody(Login, Password, hdr.realm, hdr.challenge)
            out == PostOutcome(r)
        IN  /\ log' = Append(log, Exchange("POST", "/auth", body.login, body.password, <<>>, r))
            /\ IF out = "authed"
               THEN authed' = TRUE /\ pc' = "data" /\ hdr' = NoHdr /\ UNCHANGED res
               ELSE RequestReturns(out, NoData) /\ UNCHANGED authed
    /\ UNCHANGED <<op, req, base, ret>>

\* doRequest and what Request does with its result
DataCall ==
    /\ UNCHANGED fvars
    /\ pc = "data"
    /\ \E r \in DataResponses(req.query) :
        LET out == DataOutcome(r, req.attempt)
        IN  /\ log' = Append(log, Exchange(IF req.hasBody THEN "POST" ELSE "GET",
                                           req.query, "", NoPassword, req.payload, r))
            /\ IF out = "retry"
               THEN /\ authed' = FALSE
                    /\ req' = [req EXCEPT !.attempt = req.attempt + 1]
                    /\ pc' = AuthEntry(authed')
                    /\ UNCHANGED <<hdr, res>>
               ELSE IF out = "ok"
               THEN RequestReturns("", r.data) /\ UNCHANGED <<authed, req>>
               ELSE RequestReturns(out, NoData) /\ UNCHANGED <<authed, req>>
    /\ UNCHANGED <<op, base, ret>>

----------------------------------------------------------------------------
(* GetRoutes, DeleteAllRoutes, AddRoutes *)

\* the top-level call returns r
Finish(r) ==
    /\ pc' = "done"
    /\ ret' = r
    /\ req' = NoReq
    /\ hdr' = NoHdr
    /\ UNCHANGED <<authed, base, res>>

Ready == pc = "idle"

\* the caller has taken the result; the client is ready for its next call
Return ==
    /\ UNCHANGED fvars
    /\ pc = "done"
    /\ pc' = "idle"
    /\ op' = NoOp
    /\ log' = <<>>
    /\ base' = 0
    /\ res' = NoRes
    /\ ret' = NoRet
    /\ UNCHANGED <<authed, req, hdr>>

\* the lists AddRoutes is called with: n entries, entry b (if any) with a host
\* that has a "/" and is no CIDR
Entry(i) ==
    DomainRoute(IF i % 4 = 0 THEN Cidr4(<<10, i, 0, 0>>, 16) ELSE Ip4(<<10, 0, 0, i>>),
                "test",
                IF i % 2 = 1 THEN "10.0.0.1" ELSE "",
                IF i % 2 = 1 THEN "" ELSE "Wireguard0",
                i % 3 = 0,
                i % 5 = 0)

BadEntry == DomainRoute(JunkSlash, "bad", "10.0.0.1", "", FALSE, FALSE)

MkEntries(n, b) == [i \in 1..n |-> IF i = b THEN BadEntry ELSE Entry(i)]

MaxEntries == MaxBatches * routeBatchSize + MaxExtra

\* lengths around the batch boundaries
EntryLens ==
    {n \in 0..MaxEntries :
        n % routeBatchSize <= MaxExtra \/ n % routeBatchSize = routeBatchSize - 1}

EntryLists ==
    {MkEntries(n, 0) : n \in EntryLens}
    \cup {MkEntries(MaxEntries, b) :
            b \in {1, routeBatchSize, routeBatchSize + 1, MaxEntries}}

\* NothingToAdd without the early return
NothingToAddNever(entries) == FALSE

\* AddRoutes returns at once on an empty list
NothingToAdd(entries) == Len(entries) = 0

\* BatchPayload whose batch ends one entry early
BatchPayloadShort(entries, i) ==
    LET end == Min(i + routeBatchSize - 1, Len(entries))
        batch == SubSeq(entries, i + 1, end)
        built == [k \in 1..Len(batch) |-> buildRoute(batch[k])]
        bad == {k \in 1..Len(batch) : built[k].err # ""}
    IN  IF bad # {}
        THEN [err |-> "invalid CIDR", payload |-> <<>>]
        ELSE [err |-> "",
              payload |-> [k \in 1..Len(batch) |-> routeEnvelope(built[k].route)]
                          \o <<saveConfigPayload>>]

\* the body of one iteration of AddRoutes up to the Request: the payload of the
\* batch that starts at offset i
BatchPayload(entries, i) ==
    LET end == Min(i + routeBatchSize, Len(entries))
        batch == SubSeq(entries, i + 1, end)
        built == [k \in 1..Len(batch) |-> buildRoute(batch[k])]
        bad == {k \in 1..Len(batch) : built[k].err # ""}
    IN  IF bad # {}
        THEN [err |-> "invalid CIDR", payload |-> <<>>]
        ELSE [err |-> "",
              payload |-> [k \in 1..Len(batch) |-> routeEnvelope(built[k].route)]
                          \o <<saveConfigPayload>>]

\* one iteration of the loop of AddRoutes, entered with lg on the wire
StartBatch(entries, i, lg) ==
    LET b == BatchPayload(entries, i)
    IN  /\ op' = [name |-> "AddRoutes", stage |-> "", entries |-> entries, i |-> i]
        /\ IF b.err # ""
           THEN Finish(Result("add routes", b.err, -1, <<>>)) /\ log' = lg
           ELSE EnterRequest("rci/", TRUE, b.payload, lg) /\ ret' = NoRet

CallGetRoutes ==
    /\ UNCHANGED fvars
    /\ Ready
    /\ op' = [NoOp EXCEPT !.name = "GetRoutes"]
    /\ EnterRequest("rci/ip/route", FALSE, <<>>, <<>>)
    /\ ret' = NoRet

ResumeGetRoutes ==
    /\ UNCHANGED fvars
    /\ pc = "ret"
    /\ op.name = "GetRoutes"
    /\ IF res.err # ""
       THEN Finish(Result(res.err, "", -1, <<>>))
       ELSE IF ~res.data.ok
       THEN Finish(Result("decode routes", "", -1, <<>>))
       ELSE Finish(Result("", "", -1, res.data.routes))
    /\ UNCHANGED <<op, log>>

CallDeleteAllRoutes ==
    /\ UNCHANGED fvars
    /\ Ready
    /\ op' = [NoOp EXCEPT !.name = "DeleteAllRoutes", !.stage = "fetch"]
    /\ EnterRequest("rci/ip/route", FALSE, <<>>, <<>>)
    /\ ret' = NoRet

\* DeletePayload that leaves out the records with an IPv6 host
DeletePayloadIPv4Only(routes) ==
    LET valid == SelectSeq(routes, LAMBDA r : ~(r.Host # <<>> /\ r.Host[1].t = "ip6"))
    IN  [k \in 1..Len(valid) |-> routeEnvelope([valid[k] EXCEPT !.No = <<TRUE>>])]
        \o <<saveConfigPayload>>

\* DeletePayload that leaves the records as fetched
DeletePayloadNoMarker(routes) ==
    [k \in 1..Len(routes) |-> routeEnvelope(routes[k])] \o <<saveConfigPayload>>

\* DeletePayload with the save put first
DeletePayloadSaveFirst(routes) ==
    <<saveConfigPayload>>
    \o [k \in 1..Len(routes) |-> routeEnvelope([routes[k] EXCEPT !.No = <<TRUE>>])]

\* the delete payload: every fetched record with no = true, then the save
DeletePayload(routes) ==
    [k \in 1..Len(routes) |-> routeEnvelope([routes[k] EXCEPT !.No = <<TRUE>>])]
    \o <<saveConfigPayload>>

ResumeDeleteAllRoutes ==
    /\ UNCHANGED fvars
    /\ pc = "ret"
    /\ op.name = "DeleteAllRoutes"
    /\ IF op.stage = "fetch"
       THEN IF res.err # ""
            THEN Finish(Result(res.err, "", -1, <<>>)) /\ UNCHANGED <<op, log>>
            ELSE IF ~res.data.ok
            THEN Finish(Result("decode routes", "", -1, <<>>)) /\ UNCHANGED <<op, log>>
            ELSE /\ op' = [op EXCEPT !.stage = "mutate"]
                 /\ EnterRequest("rci/", TRUE, DeletePayload(res.data.routes), log)
                 /\ UNCHANGED ret
       ELSE Finish(Result(res.err, "", -1, <<>>)) /\ UNCHANGED <<op, log>>

CallAddRoutes ==
    /\ UNCHANGED fvars
    /\ Ready
    /\ \E entries \in EntryLists :
        IF NothingToAdd(entries)
        THEN /\ op' = [NoOp EXCEPT !.name = "AddRoutes"]
             /\ Finish(NoRet)
             /\ log' = <<>>
        ELSE StartBatch(entries, 0, <<>>)

\* ResumeAddRoutes that goes on with the next batch after a failed one
ResumeAddRoutesGoOn ==
    /\ UNCHANGED fvars
    /\ pc = "ret"
    /\ op.name = "AddRoutes"
    /\ IF op.i + routeBatchSize < Len(op.entries)
       THEN StartBatch(op.entries, op.i + routeBatchSize, log)
       ELSE IF res.err # ""
       THEN Finish(Result("add routes batch at", res.err, op.i, <<>>))
            /\ UNCHANGED <<op, log>>
       ELSE Finish(NoRet) /\ UNCHANGED <<op, log>>

ResumeAddRoutes ==
    /\ UNCHANGED fvars
    /\ pc = "ret"
    /\ op.name = "AddRoutes"
    /\ IF res.err # ""
       THEN Finish(Result("add routes batch at", res.err, op.i, <<>>))
            /\ UNCHANGED <<op, log>>
       ELSE IF op.i + routeBatchSize < Len(op.entries)
       THEN StartBatch(op.entries, op.i + routeBatchSize, log)
       ELSE Finish(NoRet) /\ UNCHANGED <<op, log>>

Next ==
    \/ CallGetRoutes
    \/ CallDeleteAllRoutes
    \/ CallAddRoutes
    \/ AuthProbe
    \/ AuthPost
    \/ DataCall
    \/ ResumeGetRoutes
    \/ ResumeDeleteAllRoutes
    \/ ResumeAddRoutes
    \/ Return

Spec == Init /\ [][Next]_vars

----------------------------------------------------------------------------
(* The functions of the routes packages are applied to an input in one     *)
(* step: fn is the function, arg its input and val what it returned.  The  *)
(* client does not move meanwhile.                                         *)

Applied(f, x, v) ==
    /\ fn' = f
    /\ arg' = x
    /\ val' = v
    /\ UNCHANGED cvars

----------------------------------------------------------------------------
(* RouteDest and toDomainRoutes *)

\* the accessors of keenetic.Route.  Comments, gateways and interface names
\* are strings without white space around them.
stringValue(v) == IF v = <<>> THEN EmptyText ELSE TrimSpace(v[1])
intValue(v) == IF v = <<>> THEN 0 ELSE v[1]
boolValue(v) == IF v = <<>> THEN FALSE ELSE v[1]
HostValue(r) == stringValue(r.Host)
NetworkValue(r) == stringValue(r.Network)
IPValue(r) == stringValue(r.IP)
MaskValue(r) == stringValue(r.Mask)
PrefixValue(r) == intValue(r.Prefix)
PrefixLenValue(r) == intValue(r.PrefixLen)
CommentValue(r) == IF r.Comment = <<>> THEN "" ELSE TrimString(r.Comment[1])
GatewayValue(r) == IF r.Gateway = <<>> THEN "" ELSE TrimString(r.Gateway[1])
InterfaceValue(r) == IF r.Interface = <<>> THEN "" ELSE TrimString(r.Interface[1])
AutoValue(r) == boolValue(r.Auto)
RejectValue(r) == boolValue(r.Reject)

\* the leading one bits of a byte
LeadingOnes(b) ==
    IF b = 255 THEN 8
    ELSE CHOOSE n \in 0..7 : 256 - Pow2(8 - n) <= b /\ b < 256 - Pow2(7 - n)

\* net.IPv4Mask(a[1], a[2], a[3], a[4]).Size(): the number of leading ones,
\* and 0 when the mask is not ones followed by zeros
MaskSize(a) ==
    LET n == Cardinality({j \in 1..4 : \A i \in 1..j : a[i] = 255})
    IN  IF n = 4 THEN 32
        ELSE LET k == LeadingOnes(a[n + 1])
             IN  IF a[n + 1] = 256 - Pow2(8 - k) /\ \A i \in (n + 2)..4 : a[i] = 0
                 THEN 8 * n + k
                 ELSE 0

\* fmt.Sprintf("%s/%d", network, d) for a network with ParseIP(network).To4()
SlashPrefix(network, d) ==
    IF network.t = "ip4" THEN Cidr4(network.a, d) ELSE Cidr4In6(network.a, d)

isIPv4OrCIDR(s) ==
    IF ContainsSlash(s)
    THEN ParsesCIDR(s) /\ CIDRTo4(s)
    ELSE ParsesIP(s) /\ IPTo4(s)

\* RouteDest that prefers prefixlen to prefix
RouteDestPrefixLenFirst(r) ==
    LET h == HostValue(r)
        network == IF NetworkValue(r) = EmptyText THEN IPValue(r) ELSE NetworkValue(r)
        maskStr == MaskValue(r)
    IN  IF h # EmptyText
        THEN IF ~isIPv4OrCIDR(h) THEN EmptyText ELSE h
        ELSE IF network = EmptyText THEN EmptyText
        ELSE IF ~(ParsesIP(network) /\ IPTo4(network)) THEN EmptyText
        ELSE IF PrefixLenValue(r) > 0 /\ PrefixLenValue(r) <= 32
        THEN SlashPrefix(network, PrefixLenValue(r))
        ELSE IF PrefixValue(r) > 0 /\ PrefixValue(r) <= 32
        THEN SlashPrefix(network, PrefixValue(r))
        ELSE IF maskStr = EmptyText THEN network
        ELSE IF ~ParsesIP(maskStr) THEN network
        ELSE IF ~IPTo4(maskStr) THEN network
        ELSE SlashPrefix(network, MaskSize(maskStr.a))

\* RouteDest that takes the prefix as it is
RouteDestAnyPrefix(r) ==
    LET h == HostValue(r)
        network == IF NetworkValue(r) = EmptyText THEN IPValue(r) ELSE NetworkValue(r)
    IN  IF h # EmptyText THEN h
        ELSE IF network = EmptyText THEN EmptyText
        ELSE IF ~(ParsesIP(network) /\ IPTo4(network)) THEN EmptyText
        ELSE SlashPrefix(network, PrefixValue(r))

\* RouteDest: the destination of a record, EmptyText when there is none
RouteDest(r) ==
    LET h == HostValue(r)
        network == IF NetworkValue(r) = EmptyText THEN IPValue(r) ELSE NetworkValue(r)
        maskStr == MaskValue(r)
    IN  IF h # EmptyText
        THEN IF ~isIPv4OrCIDR(h) THEN EmptyText ELSE h
        ELSE IF network = EmptyText THEN EmptyText
        ELSE IF ~(ParsesIP(network) /\ IPTo4(network)) THEN EmptyText
        ELSE IF PrefixValue(r) > 0 /\ PrefixValue(r) <= 32
        THEN SlashPrefix(network, PrefixValue(r))
        ELSE IF PrefixLenValue(r) > 0 /\ PrefixLenValue(r) <= 32
        THEN SlashPrefix(network, PrefixLenValue(r))
        ELSE IF maskStr = EmptyText THEN network
        ELSE IF ~ParsesIP(maskStr) THEN network
        ELSE IF ~IPTo4(maskStr) THEN network
        ELSE SlashPrefix(network, MaskSize(maskStr.a))

\* toDomainRoutes that leaves out the records without a destination
toDomainRoutesSkip(raw) ==
    LET keep == SelectSeq(raw, LAMBDA r : RouteDest(r) # EmptyText)
    IN  [err |-> "",
         bad |-> <<>>,
         routes |-> [k \in 1..Len(keep) |->
                       DomainRoute(RouteDest(keep[k]), CommentValue(keep[k]),
                                   GatewayValue(keep[k]), InterfaceValue(keep[k]),
                                   AutoValue(keep[k]), RejectValue(keep[k]))]]

\* toDomainRoutes: the canonical routes of the records, or the error of the
\* first record without a destination (bad: its host, network and ip)
toDomainRoutes(raw) ==
    LET none == {k \in 1..Len(raw) : RouteDest(raw[k]) = EmptyText}
    IN  IF none # {}
        THEN LET r == raw[First(none)]
             IN  [err |-> "unsupported route destination (IPv4 only)",
                  bad |-> <<HostValue(r), NetworkValue(r), IPValue(r)>>,
                  routes |-> <<>>]
        ELSE [err |-> "",
              bad |-> <<>>,
              routes |-> [k \in 1..Len(raw) |->
                            DomainRoute(RouteDest(raw[k]), CommentValue(raw[k]),
                                        GatewayValue(raw[k]), InterfaceValue(raw[k]),
                                        AutoValue(raw[k]), RejectValue(raw[k]))]]

\* GetDomainRoutes, given what GetRoutes returned
GetDomainRoutes(got) ==
    IF got.err # ""
    THEN [err |-> got.err, bad |-> <<>>, routes |-> <<>>]
    ELSE toDomainRoutes(got.routes)

\* Inputs.  Addresses, prefix lengths and masks of the records:
DestAddrs == {<<192, 168, 0, 0>>, <<10, 1, 2, 3>>}
DestPrefixes == {0, 16, 24, 32}
DestMasks ==
    {<<255, 255, 255, 0>>, <<255, 255, 0, 0>>, <<0, 0, 0, 0>>,
     <<255, 255, 255, 255>>, <<255, 0, 255, 0>>}

Ptrs(S) == {<<>>} \cup {<<x>> : x \in S}

DestHosts ==
    {EmptyText, Ip6(1), Cidr6(1, 32), Ip4In6(<<10, 1, 2, 3>>),
     Cidr4In6(<<10, 1, 2, 3>>, 24), Junk(1), JunkSlash,
     Padded(Ip4(<<10, 1, 2, 3>>))}
    \cup {Ip4(a) : a \in DestAddrs}
    \cup {Cidr4(a, q) : a \in DestAddrs, q \in DestPrefixes}

DestNetworks ==
    {Ip6(1), Ip4In6(<<10, 1, 2, 3>>), Junk(1)} \cup {Ip4(a) : a \in DestAddrs}

DestRecords ==
    {[NilRoute EXCEPT !.Host = h, !.Network = n, !.IP = i, !.Mask = m,
                      !.Prefix = q, !.PrefixLen = l] :
        h \in Ptrs(DestHosts),
        n \in Ptrs(DestNetworks),
        i \in Ptrs({Ip4(<<10, 1, 2, 3>>), Ip6(1)}),
        m \in Ptrs({Ip4(a) : a \in DestMasks} \cup {Ip6(2), Junk(1)}),
        q \in Ptrs(DestPrefixes \cup {33}),
        l \in Ptrs({0, 24, 33})}

\* the records GetRoutes brings: with and without a destination
MaxRecords == 2

WireRecords ==
    {WireHost(Ip4(<<8, 8, 8, 8>>), "dns"),
     WireNet(Ip4(<<192, 168, 0, 0>>), Ip4(<<255, 255, 255, 0>>), "lan"),
     [NilRoute EXCEPT !.IP = <<Ip4(<<10, 1, 2, 3>>)>>, !.Prefix = <<16>>,
                      !.Gateway = <<"10.0.0.1">>, !.Auto = <<TRUE>>],
     [NilRoute EXCEPT !.Host = <<Cidr4(<<10, 1, 2, 3>>, 16)>>,
                      !.Interface = <<"Wireguard0">>, !.Reject = <<TRUE>>],
     WireHost(Ip4In6(<<10, 1, 2, 3>>), "mapped"),
     WireHost(Ip6(1), "v6"),
     WireNet(Ip6(1), Ip6(2), "v6net"),
     [NilRoute EXCEPT !.Comment = <<"none">>]}

RawLists == UNION {[1..n -> WireRecords] : n \in 0..MaxRecords}

FetchResults ==
    {[err |-> "", routes |-> raw] : raw \in RawLists}
    \cup {[err |-> e, routes |-> <<>>] : e \in {"request", "decode routes"}}

ApplyRouteDest ==
    /\ fn = ""
    /\ \E r \in DestRecords : Applied("RouteDest", r, RouteDest(r))

ApplyGetDomainRoutes ==
    /\ fn = ""
    /\ \E got \in FetchResults :
          Applied("GetDomainRoutes", got, GetDomainRoutes(got))

NextDest == ApplyRouteDest \/ ApplyGetDomainRoutes

SpecDest == Init /\ [][NextDest]_vars

----------------------------------------------------------------------------
(* ToYAML, normalizeHost and FlattenToEntries *)

\* routes.RouteGroup: the shared attributes, the hosts and the domains
RouteGroup(comment, gateway, iface, auto, reject, hosts, domains) ==
    [Comment |-> comment, Gateway |-> gateway, Interface |-> iface,
     Auto |-> auto, Reject |-> reject, Hosts |-> hosts, Domains |-> domains]

\* *routes.RoutesFile: <<>> is nil, <<f>> points to the file f
RoutesFile(groups) == <<[Routes |-> groups]>>
NilFile == <<>>

routeGroupKey(r) ==
    [comment |-> r.Comment, gateway |-> r.Gateway, iface |-> r.Interface,
     auto |-> r.Auto, reject |-> r.Reject]

\* the keys of the routes in the order in which each is seen first
RECURSIVE KeyOrder(_, _, _)
KeyOrder(list, k, order) ==
    IF k > Len(list) THEN order
    ELSE LET key == routeGroupKey(list[k])
         IN  IF \E j \in 1..Len(order) : order[j] = key
             THEN KeyOrder(list, k + 1, order)
             ELSE KeyOrder(list, k + 1, Append(order, key))

\* ToYAML that keeps every route
ToYAMLKeepsAll(routesList) ==
    LET order == KeyOrder(routesList, 1, <<>>)
        grouped(key) == SelectSeq(routesList, LAMBDA r : routeGroupKey(r) = key)
    IN  RoutesFile([k \in 1..Len(order) |->
                      RouteGroup(order[k].comment, order[k].gateway,
                                 order[k].iface, order[k].auto, order[k].reject,
                                 [j \in 1..Len(grouped(order[k])) |->
                                    grouped(order[k])[j].Host],
                                 <<>>)])

\* ToYAML that starts a group for every route
ToYAMLUngrouped(routesList) ==
    LET kept == SelectSeq(routesList,
                          LAMBDA r : r.Host # EmptyText /\ isIPv4OrCIDR(r.Host))
    IN  RoutesFile([k \in 1..Len(kept) |->
                      RouteGroup(kept[k].Comment, kept[k].Gateway,
                                 kept[k].Interface, kept[k].Auto, kept[k].Reject,
                                 <<kept[k].Host>>, <<>>)])

\* ToYAML: the routes with an IPv4 destination, grouped by their attributes
ToYAML(routesList) ==
    LET kept == SelectSeq(routesList,
                          LAMBDA r : r.Host # EmptyText /\ isIPv4OrCIDR(r.Host))
        order == KeyOrder(kept, 1, <<>>)
        grouped(key) == SelectSeq(kept, LAMBDA r : routeGroupKey(r) = key)
    IN  RoutesFile([k \in 1..Len(order) |->
                      RouteGroup(order[k].comment, order[k].gateway,
                                 order[k].iface, order[k].auto, order[k].reject,
                                 [j \in 1..Len(grouped(order[k])) |->
                                    grouped(order[k])[j].Host],
                                 <<>>)])

\* normalizeHost: [err |-> "" or the error, host |-> the normal form]
normalizeHost(s0) ==
    LET s == TrimSpace(s0)
    IN  IF s = EmptyText THEN [err |-> "empty host", host |-> EmptyText]
        ELSE IF ContainsSlash(s)
        THEN IF ~ParsesCIDR(s)
             THEN [err |-> "invalid CIDR address", host |-> EmptyText]
             ELSE IF ~CIDRTo4(s)
             THEN [err |-> "invalid IPv4 CIDR", host |-> EmptyText]
             ELSE [err |-> "", host |-> CIDRString(s)]
        ELSE IF ~ParsesIP(s) THEN [err |-> "invalid IP", host |-> EmptyText]
        ELSE IF ~IPTo4(s) THEN [err |-> "invalid IPv4", host |-> EmptyText]
        ELSE [err |-> "", host |-> IPString(s)]

\* the errors of FlattenToEntries: which check failed, the group it names,
\* the host it names and the cause
FlattenError(kind, group, host, cause) ==
    [kind |-> kind, group |-> group, host |-> host, cause |-> cause]
NoError == FlattenError("", "", EmptyText, "")

\* the loop over the hosts of group g, from host k on
RECURSIVE FlattenHosts(_, _, _)
FlattenHosts(g, k, out) ==
    IF k > Len(g.Hosts) THEN [err |-> NoError, routes |-> out]
    ELSE LET norm == normalizeHost(g.Hosts[k])
         IN  IF norm.err # ""
             THEN [err |-> FlattenError("host", g.Comment, g.Hosts[k], norm.err),
                   routes |-> <<>>]
             ELSE FlattenHosts(g, k + 1,
                      Append(out, DomainRoute(norm.host, g.Comment, g.Gateway,
                                              g.Interface, g.Auto, g.Reject)))

\* FlattenChecks that takes up every group
FlattenChecksAll(g) == TRUE

\* whether FlattenToEntries takes up a group: not one without hosts
FlattenChecks(g) == Len(g.Hosts) # 0

\* the loop over the groups, from group i on
RECURSIVE FlattenGroups(_, _, _)
FlattenGroups(groups, i, out) ==
    IF i > Len(groups) THEN [err |-> NoError, routes |-> out]
    ELSE LET g == groups[i]
         IN  IF ~FlattenChecks(g) THEN FlattenGroups(groups, i + 1, out)
             ELSE IF (g.Gateway # "") = (g.Interface # "")
             THEN [err |-> FlattenError("group", g.Comment, EmptyText,
                                        "set exactly one of gateway or interface"),
                   routes |-> <<>>]
             ELSE LET r == FlattenHosts(g, 1, out)
                  IN  IF r.err # NoError THEN r
                      ELSE FlattenGroups(groups, i + 1, r.routes)

FlattenToEntries(rf) ==
    IF rf = NilFile \/ Len(rf[1].Routes) = 0
    THEN [err |-> NoError, routes |-> <<>>]
    ELSE FlattenGroups(rf[1].Routes, 1, <<>>)

\* Inputs.  The attributes of a group or of a route: comment, gateway,
\* interface, auto, reject
Attrs ==
    {<<"test", "10.0.0.1", "", TRUE, FALSE>>,
     <<"vpn", "", "Wireguard0", FALSE, TRUE>>,
     <<"none", "", "", FALSE, FALSE>>,
     <<"both", "10.0.0.1", "Wireguard0", FALSE, FALSE>>}

\* hosts of a YAML group
MaxHosts == 2

YAMLHosts ==
    {Ip4(<<8, 8, 8, 8>>), Padded(Ip4(<<10, 1, 2, 3>>)),
     Cidr4(<<192, 168, 0, 0>>, 24), Cidr4(<<10, 1, 2, 3>>, 16),
     EmptyText, Padded(EmptyText), Ip6(1), Cidr6(1, 32), Junk(1), JunkSlash,
     Ip4In6(<<10, 1, 2, 3>>), Cidr4In6(<<10, 1, 2, 3>>, 24)}

HostLists == UNION {[1..n -> YAMLHosts] : n \in 0..MaxHosts}

YAMLGroups ==
    {RouteGroup(a[1], a[2], a[3], a[4], a[5], hosts, <<>>) :
        a \in Attrs, hosts \in HostLists}
    \cup {RouteGroup("", gateway, "", FALSE, FALSE, <<Ip4(<<8, 8, 8, 8>>)>>, <<>>) :
             gateway \in {"", "10.0.0.1"}}

\* the groups that come first in a file of two
LeadGroups ==
    {RouteGroup("test", "10.0.0.1", "", TRUE, FALSE, <<Ip4(<<8, 8, 8, 8>>)>>, <<>>),
     RouteGroup("vpn", "", "Wireguard0", FALSE, TRUE,
                <<Cidr4(<<10, 1, 2, 3>>, 16), Padded(Ip4(<<10, 1, 2, 3>>))>>, <<>>),
     RouteGroup("none", "", "", FALSE, FALSE, <<>>, <<>>),
     RouteGroup("bad", "10.0.0.1", "", FALSE, FALSE, <<Junk(1)>>, <<>>)}

YAMLFiles ==
    {NilFile, RoutesFile(<<>>)}
    \cup {RoutesFile(<<g>>) : g \in YAMLGroups}
    \cup {RoutesFile(<<g, h>>) : g \in LeadGroups, h \in YAMLGroups}

\* canonical routes handed to ToYAML
MaxRoutes == 3

CanonHosts ==
    {Ip4(<<8, 8, 8, 8>>), Cidr4(<<192, 168, 0, 0>>, 24),
     Cidr4(<<10, 1, 2, 3>>, 16), Ip6(1)}

CanonRoutes ==
    {DomainRoute(h, a[1], a[2], a[3], a[4], a[5]) :
        h \in CanonHosts, a \in Attrs}
    \cup {DomainRoute(EmptyText, "test", "10.0.0.1", "", TRUE, FALSE)}

CanonLists == UNION {[1..n -> CanonRoutes] : n \in 0..MaxRoutes}

ApplyFlattenToEntries ==
    /\ fn = ""
    /\ \E rf \in YAMLFiles : Applied("FlattenToEntries", rf, FlattenToEntries(rf))

\* ToYAML and then FlattenToEntries of what it returned
ApplyToYAML ==
    /\ fn = ""
    /\ \E list \in CanonLists :
          Applied("ToYAML", list,
                  [yaml |-> ToYAML(list), flat |-> FlattenToEntries(ToYAML(list))])

NextYAML == ApplyFlattenToEntries \/ ApplyToYAML

SpecYAML == Init /\ [][NextYAML]_vars

----------------------------------------------------------------------------
(* ResolveDomainsWithResolver *)

\* ResolveSummary
Summary(groups, domains, ipsAdded) ==
    [Groups |-> groups, Domains |-> domains, IPsAdded |-> ipsAdded]

\* the errors of ResolveDomainsWithResolver: the label of the group, the
\* domain (EmptyText when none is named) and the cause
ResolveError(label, domain, cause) ==
    [label |-> label, domain |-> domain, cause |-> cause]
NoResolveError == ResolveError("", EmptyText, "")

\* groupLabel, idx counting from 0
groupLabel(group, idx) ==
    IF group.Comment # "" THEN "\"" \o group.Comment \o "\""
    ELSE "#" \o ToString(idx + 1)

\* seq without the later copies of its elements
RECURSIVE Dedupe(_, _, _)
Dedupe(seq, k, out) ==
    IF k > Len(seq) THEN out
    ELSE IF \E j \in 1..Len(out) : out[j] = seq[k]
    THEN Dedupe(seq, k + 1, out)
    ELSE Dedupe(seq, k + 1, Append(out, seq[k]))

\* a resolver answers a name with an error or with addresses (IPv4 and IPv6)
Answer(err, addrs) == [err |-> err, addrs |-> addrs]

\* lookupIPv4 that keeps every address the resolver answers with
lookupIPv4KeepsAll(resolver, domain) ==
    IF ParsesIP(domain)
    THEN IF IPTo4(domain)
         THEN [err |-> "", ips |-> <<IPString(domain)>>, asked |-> FALSE]
         ELSE [err |-> "IPv6 is not supported", ips |-> <<>>, asked |-> FALSE]
    ELSE LET ans == resolver[domain]
         IN  IF ans.err # ""
             THEN [err |-> ans.err, ips |-> <<>>, asked |-> TRUE]
             ELSE [err |-> "",
                   ips |-> Dedupe([k \in 1..Len(ans.addrs) |-> IPString(ans.addrs[k])],
                                  1, <<>>),
                   asked |-> TRUE]

\* lookupIPv4 that takes a literal address of any family
lookupIPv4AnyLiteral(resolver, domain) ==
    IF ParsesIP(domain)
    THEN [err |-> "", ips |-> <<IPString(domain)>>, asked |-> FALSE]
    ELSE LET ans == resolver[domain]
         IN  IF ans.err # ""
             THEN [err |-> ans.err, ips |-> <<>>, asked |-> TRUE]
             ELSE LET v4 == SelectSeq(ans.addrs, IPTo4)
                  IN  [err |-> "",
                       ips |-> Dedupe([k \in 1..Len(v4) |-> IPString(v4[k])], 1, <<>>),
                       asked |-> TRUE]

\* lookupIPv4: the error, the IPv4 addresses found, and whether the resolver
\* was asked
lookupIPv4(resolver, domain) ==
    IF ParsesIP(domain)
    THEN IF IPTo4(domain)
         THEN [err |-> "", ips |-> <<IPString(domain)>>, asked |-> FALSE]
         ELSE [err |-> "IPv6 is not supported", ips |-> <<>>, asked |-> FALSE]
    ELSE LET ans == resolver[domain]
         IN  IF ans.err # ""
             THEN [err |-> ans.err, ips |-> <<>>, asked |-> TRUE]
             ELSE LET v4 == SelectSeq(ans.addrs, IPTo4)
                  IN  [err |-> "",
                       ips |-> Dedupe([k \in 1..Len(v4) |-> IPString(v4[k])], 1, <<>>),
                       asked |-> TRUE]

\* NewIPs that takes every address found
NewIPsAll(ips, mergedHosts) == ips

\* the addresses found that the hosts of the group do not hold yet
NewIPs(ips, mergedHosts) ==
    SelectSeq(ips, LAMBDA ip : \A j \in 1..Len(mergedHosts) : mergedHosts[j] # ip)

\* LooksUp that forgets the domains the group had before
LooksUpAgain(domain, seenDomains) == TRUE

\* whether a domain entry of a group is looked up: not when the group had the
\* domain before
LooksUp(domain, seenDomains) == domain \notin seenDomains

\* the loop over the domains of a group, from domain k on.  st holds
\* mergedHosts, seenDomains, the summary, the names the resolver was asked
\* for, and the error.
RECURSIVE ResolveDomainsOf(_, _, _, _, _)
ResolveDomainsOf(resolver, label, domains, k, st) ==
    IF k > Len(domains) THEN st
    ELSE LET domain == TrimSpace(domains[k])
         IN  IF domain = EmptyText
             THEN [st EXCEPT !.err = ResolveError(label, EmptyText, "empty domain entry")]
             ELSE IF ~LooksUp(domain, st.seenDomains)
             THEN ResolveDomainsOf(resolver, label, domains, k + 1, st)
             ELSE LET r == lookupIPv4(resolver, domain)
                      st1 == [st EXCEPT
                                !.seenDomains = @ \cup {domain},
                                !.summary.Domains = @ + 1,
                                !.lookups = IF r.asked THEN Append(@, domain) ELSE @]
                      new == NewIPs(r.ips, st.mergedHosts)
                  IN  IF r.err # ""
                      THEN [st1 EXCEPT !.err = ResolveError(label, domain, r.err)]
                      ELSE IF Len(r.ips) = 0
                      THEN [st1 EXCEPT !.err = ResolveError(label, domain,
                                                            "no IPv4 records found")]
                      ELSE ResolveDomainsOf(resolver, label, domains, k + 1,
                               [st1 EXCEPT !.mergedHosts = @ \o new,
                                           !.summary.IPsAdded = @ + Len(new)])

\* ResolveChecks that takes up every group
ResolveChecksAll(group) == TRUE

\* whether ResolveDomainsWithResolver takes up a group: not one without
\* domains
ResolveChecks(group) == Len(group.Domains) # 0

\* the loop over the groups, from group i on.  acc holds the groups as
\* changed so far, the summary, the names asked for, and the error.
RECURSIVE ResolveGroups(_, _, _)
ResolveGroups(resolver, i, acc) ==
    IF i > Len(acc.groups) THEN acc
    ELSE LET group == acc.groups[i]
             label == groupLabel(group, i - 1)
             trimmed == [k \in 1..Len(group.Hosts) |-> TrimSpace(group.Hosts[k])]
             st == ResolveDomainsOf(resolver, label, group.Domains, 1,
                     [mergedHosts |->
                          Dedupe(SelectSeq(trimmed, LAMBDA h : h # EmptyText), 1, <<>>),
                      seenDomains |-> {},
                      summary |-> [acc.summary EXCEPT !.Groups = @ + 1],
                      lookups |-> acc.lookups,
                      err |-> NoResolveError])
         IN  IF ~ResolveChecks(group) THEN ResolveGroups(resolver, i + 1, acc)
             ELSE IF (group.Gateway = "") = (group.Interface = "")
             THEN [acc EXCEPT !.err = ResolveError(label, EmptyText,
                                  "set exactly one of gateway or interface")]
             ELSE IF st.err # NoResolveError
             THEN [acc EXCEPT !.summary = st.summary, !.lookups = st.lookups,
                              !.err = st.err]
             ELSE ResolveGroups(resolver, i + 1,
                      [acc EXCEPT !.groups[i].Hosts = st.mergedHosts,
                                  !.summary = st.summary,
                                  !.lookups = st.lookups])

\* ResolveDomainsWithResolver that leaves the file as it was when it fails
ResolveDomainsAllOrNothing(rf, resolver) ==
    IF rf = NilFile \/ Len(rf[1].Routes) = 0
    THEN [summary |-> Summary(0, 0, 0), err |-> NoResolveError, file |-> rf,
          lookups |-> <<>>]
    ELSE LET acc == ResolveGroups(resolver, 1,
                       [groups |-> rf[1].Routes, summary |-> Summary(0, 0, 0),
                        lookups |-> <<>>, err |-> NoResolveError])
         IN  [summary |-> acc.summary, err |-> acc.err,
              file |-> IF acc.err # NoResolveError THEN rf
                       ELSE RoutesFile(acc.groups),
              lookups |-> acc.lookups]

\* ResolveDomainsWithResolver: the summary and the error it returns, the
\* file as it leaves it, and the names it asked the resolver for, in order
ResolveDomainsWithResolver(rf, resolver) ==
    IF rf = NilFile \/ Len(rf[1].Routes) = 0
    THEN [summary |-> Summary(0, 0, 0), err |-> NoResolveError, file |-> rf,
          lookups |-> <<>>]
    ELSE LET acc == ResolveGroups(resolver, 1,
                       [groups |-> rf[1].Routes, summary |-> Summary(0, 0, 0),
                        lookups |-> <<>>, err |-> NoResolveError])
         IN  [summary |-> acc.summary, err |-> acc.err,
              file |-> RoutesFile(acc.groups), lookups |-> acc.lookups]

\* Inputs.  The names the resolvers know and what they answer:
Names == {Junk(1), Junk(2)}

Resolvers ==
    {[n \in Names |->
        IF n = Junk(1) THEN Answer("", <<Ip4(<<1, 1, 1, 1>>)>>)
        ELSE Answer("", <<Ip4(<<2, 2, 2, 2>>), Ip4(<<1, 1, 1, 1>>)>>)],
     [n \in Names |->
        IF n = Junk(1)
        THEN Answer("", <<Ip4(<<1, 1, 1, 1>>), Ip6(1), Ip4(<<1, 1, 1, 1>>)>>)
        ELSE Answer("", <<Ip6(1)>>)],
     [n \in Names |->
        IF n = Junk(1) THEN Answer("no such host", <<>>)
        ELSE Answer("", <<Ip4In6(<<2, 2, 2, 2>>)>>)],
     [n \in Names |->
        IF n = Junk(1) THEN Answer("", <<>>)
        ELSE Answer("", <<Ip4(<<2, 2, 2, 2>>)>>)]}

\* the domain entries of a group
MaxDomains == 2

DomainTexts ==
    {Junk(1), Junk(2), Padded(Junk(1)), Ip4(<<9, 9, 9, 9>>),
     Ip4In6(<<9, 9, 9, 9>>), Ip6(1), EmptyText}

DomainLists == UNION {[1..n -> DomainTexts] : n \in 0..MaxDomains}

ResolveHosts ==
    {<<>>,
     <<Ip4(<<1, 1, 1, 1>>)>>,
     <<Padded(Ip4(<<1, 1, 1, 1>>)), EmptyText, Ip4(<<1, 1, 1, 1>>), Junk(3)>>}

ResolveGroupSet ==
    {RouteGroup(a[1], a[2], a[3], a[4], a[5], hosts, domains) :
        a \in Attrs, hosts \in ResolveHosts, domains \in DomainLists}
    \cup {RouteGroup("", gateway, "", FALSE, FALSE, <<>>, <<Junk(2)>>) :
             gateway \in {"", "10.0.0.1"}}

\* the groups that come first in a file of two
ResolveLeadGroups ==
    {RouteGroup("", "10.0.0.1", "", FALSE, FALSE, <<>>, <<Junk(1), Junk(2)>>),
     RouteGroup("none", "", "", FALSE, FALSE, <<Ip4(<<8, 8, 8, 8>>)>>, <<>>)}

ResolveFiles ==
    {NilFile, RoutesFile(<<>>)}
    \cup {RoutesFile(<<g>>) : g \in ResolveGroupSet}
    \cup {RoutesFile(<<g, h>>) : g \in ResolveLeadGroups, h \in ResolveGroupSet}

\* arg holds the file as it was before the call, the resolver, and what the
\* call before returned (the result of no call for the first one)
NoRun ==
    [summary |-> Summary(0, 0, 0), err |-> NoResolveError, file |-> NilFile,
     lookups |-> <<>>]

ApplyResolveDomains ==
    /\ fn = ""
    /\ \E rf \in ResolveFiles, resolver \in Resolvers :
          Applied("ResolveDomains",
                  [file |-> rf, resolver |-> resolver, prev |-> NoRun],
                  ResolveDomainsWithResolver(rf, resolver))

\* the next run, on the file a successful run left, with the same resolver
ApplyResolveAgain ==
    /\ fn = "ResolveDomains"
    /\ val.err = NoResolveError
    /\ fn' = "ResolveAgain"
    /\ arg' = [file |-> val.file, resolver |-> arg.resolver, prev |-> val]
    /\ val' = ResolveDomainsWithResolver(val.file, arg.resolver)
    /\ UNCHANGED cvars

NextResolve == ApplyResolveDomains \/ ApplyResolveAgain

SpecResolve == Init /\ [][NextResolve]_vars

\* flattening and resolution of a routes file
NextFile == NextYAML \/ NextResolve

SpecFile == Init /\ [][NextFile]_vars

----------------------------------------------------------------------------
(* LoadConfig *)

\* Config, and the names of its fields
Config(host, user, password) == [Host |-> host, User |-> user, Password |-> password]
ConfigFields == {"Host", "User", "Password"}

\* the value a source holds for a field
Value(source, f) == source \o "." \o f

\* the config file: missing (os.ReadFile fails), not YAML, or a document
\* that sets some of the keys (cfg holds "" for a key it does not set)
ConfigFile(state, cfg) == [state |-> state, cfg |-> cfg]

\* the .env file of the current directory: missing, unreadable, or lines
\* that set some of the variables (<<>> for a variable it does not set)
DotEnv(state, envVars) == [state |-> state, vars |-> envVars]

\* godotenv.Load: the environment after it; a variable of .env is set only
\* when the environment does not hold it (also not with an empty value)
godotenvLoad(env, dotenv) ==
    IF dotenv.state = "ok"
    THEN [f \in ConfigFields |-> IF env[f] # <<>> THEN env[f] ELSE dotenv.vars[f]]
    ELSE env

\* os.Getenv: "" for a variable that is not set
Getenv(env, f) == IF env[f] = <<>> THEN "" ELSE env[f][1]

\* LoadConfig that lets the environment win over the config file
LoadConfigEnvFirst(hostFlag, userFlag, passwordFlag, file, env, dotenv) ==
    LET flags == Config(hostFlag, userFlag, passwordFlag)
        env1 == godotenvLoad(env, dotenv)
        cfg1 == [f \in ConfigFields |->
                    IF Getenv(env1, f) # "" THEN Getenv(env1, f)
                    ELSE IF file.state = "ok" THEN file.cfg[f] ELSE ""]
        cfg2 == [f \in ConfigFields |-> IF flags[f] # "" THEN flags[f] ELSE cfg1[f]]
    IN  IF file.state = "bad"
        THEN [err |-> "parse config file", cfg |-> <<>>, env |-> env]
        ELSE IF dotenv.state = "bad"
        THEN [err |-> "load .env", cfg |-> <<>>, env |-> env]
        ELSE [err |-> "", cfg |-> <<cfg2>>, env |-> env1]

\* LoadConfig: the error, the *Config returned (nil with an error), and the
\* environment of the process after the call
LoadConfig(hostFlag, userFlag, passwordFlag, file, env, dotenv) ==
    LET flags == Config(hostFlag, userFlag, passwordFlag)
        cfg0 == IF file.state = "ok" THEN file.cfg ELSE Config("", "", "")
        env1 == godotenvLoad(env, dotenv)
        cfg1 == [f \in ConfigFields |->
                    IF cfg0[f] = "" THEN Getenv(env1, f) ELSE cfg0[f]]
        cfg2 == [f \in ConfigFields |-> IF flags[f] # "" THEN flags[f] ELSE cfg1[f]]
    IN  IF file.state = "bad"
        THEN [err |-> "parse config file", cfg |-> <<>>, env |-> env]
        ELSE IF dotenv.state = "bad"
        THEN [err |-> "load .env", cfg |-> <<>>, env |-> env]
        ELSE [err |-> "", cfg |-> <<cfg2>>, env |-> env1]

\* Inputs: every field of every source is either absent or holds the value
\* of that source; a variable of the environment may also be set and empty
FlagSets == [ConfigFields -> BOOLEAN]

Flags == {[f \in ConfigFields |-> IF s[f] THEN Value("flag", f) ELSE ""] : s \in FlagSets}

ConfigFiles ==
    {ConfigFile("missing", Config("", "", "")), ConfigFile("bad", Config("", "", ""))}
    \cup {ConfigFile("ok", [f \in ConfigFields |-> IF s[f] THEN Value("file", f) ELSE ""]) :
             s \in FlagSets}

Environments ==
    {[f \in ConfigFields |-> e[f]] :
        e \in [ConfigFields -> {<<>>, <<"">>}]}
    \cup {[f \in ConfigFields |-> IF e[f] = <<>> THEN <<>> ELSE <<Value("env", f)>>] :
             e \in [ConfigFields -> {<<>>, <<"">>}]}
    \cup {[f \in ConfigFields |->
              IF f = "Host" THEN <<"">> ELSE IF s[f] THEN <<Value("env", f)>> ELSE <<>>] :
             s \in FlagSets}

NoVars == [f \in ConfigFields |-> <<>>]

DotEnvs ==
    {DotEnv("missing", NoVars), DotEnv("bad", NoVars)}
    \cup {DotEnv("ok", [f \in ConfigFields |-> IF s[f] THEN <<Value("dotenv", f)>> ELSE <<>>]) :
             s \in FlagSets}

ApplyLoadConfig ==
    /\ fn = ""
    /\ \E flags \in Flags, file \in ConfigFiles, env \in Environments,
          dotenv \in DotEnvs :
          Applied("LoadConfig",
                  [flags |-> flags, file |-> file, env |-> env, dotenv |-> dotenv],
                  LoadConfig(flags.Host, flags.User, flags.Password, file, env, dotenv))

NextConfig == ApplyLoadConfig

SpecConfig == Init /\ [][NextConfig]_vars

----------------------------------------------------------------------------

(* buildRoute and RouteDest *)

\* Inputs: the canonical routes buildRoute is given
BuildHosts ==
    {EmptyText, Ip4(<<8, 8, 8, 8>>), Padded(Ip4(<<8, 8, 8, 8>>)),
     Ip4In6(<<10, 1, 2, 3>>), Cidr4In6(<<10, 1, 2, 3>>, 24), Ip6(1), Cidr6(1, 32),
     Junk(1), JunkSlash, Padded(Cidr4(<<192, 168, 0, 0>>, 24)),
     Cidr4(<<0, 0, 0, 0>>, 0)}
    \cup {Cidr4(a, q) : a \in DestAddrs, q \in DestPrefixes}

BuildRoutes ==
    {DomainRoute(h, comment, gateway, iface, auto, reject) :
        h \in BuildHosts, comment \in {"", "test", PadString("test")},
        gateway \in {"", "10.0.0.1"},
        iface \in {"", "Wireguard0", PadString("Wireguard0"), PadString("")},
        auto \in BOOLEAN, reject \in BOOLEAN}

\* val holds what buildRoute returns and, for a record it built, what
\* RouteDest and the accessors make of the record
ApplyBuildRoute ==
    /\ fn = ""
    /\ \E e \in BuildRoutes :
          LET built == buildRoute(e)
          IN  Applied("buildRoute", e,
                      [err |-> built.err,
                       route |-> built.route,
                       dest |-> RouteDest(built.route),
                       back |-> DomainRoute(RouteDest(built.route),
                                            CommentValue(built.route),
                                            GatewayValue(built.route),
                                            InterfaceValue(built.route),
                                            AutoValue(built.route),
                                            RejectValue(built.route))])

NextBuild == ApplyBuildRoute

SpecBuild == Init /\ [][NextBuild]_vars

----------------------------------------------------------------------------

(* Boolish.UnmarshalJSON *)

\* The bytes of a JSON value: a word, written in lower or in upper case,
\* with or without quotes around it, with or without white space around the
\* whole and, inside the quotes, around the word
Bytes(outer, quoted, inner, upper, word) ==
    [outer |-> outer, quoted |-> quoted, inner |-> inner, upper |-> upper,
     word |-> word]

\* strings.TrimSpace of the bytes as they stand: of the whole, and of what
\* is inside the quotes once the quotes are gone
TrimBytes(s) ==
    IF s.quoted THEN [s EXCEPT !.outer = FALSE]
    ELSE [s EXCEPT !.outer = FALSE, !.inner = FALSE]

\* strings.Trim(s, `"`) where s starts and ends with a quote
TrimQuotes(s) == [s EXCEPT !.quoted = FALSE]

\* strings.ToLower
ToLower(s) == [s EXCEPT !.upper = FALSE]

\* s == w for a Go string literal w in lower case
IsWord(s, w) ==
    ~s.outer /\ ~s.quoted /\ ~s.inner /\ ~s.upper /\ s.word = w

\* the words strconv.ParseFloat takes, in either case: numbers, of which
\* "1e-999" is rounded to zero, and "inf" and "nan"; "1e999" is out of
\* range, which is an error
ZeroFloats == {"0", "0.0", "-0", "1e-999"}
NonZeroFloats == {"1", "2", "-1", "0.5", "inf", "nan"}

\* strconv.ParseFloat(s, 64): whether it fails, and whether f != 0
ParseFloat(s) ==
    IF s.outer \/ s.quoted \/ s.inner THEN [err |-> TRUE, nonzero |-> FALSE]
    ELSE IF s.word \in NonZeroFloats THEN [err |-> FALSE, nonzero |-> TRUE]
    ELSE IF s.word \in ZeroFloats THEN [err |-> FALSE, nonzero |-> FALSE]
    ELSE [err |-> TRUE, nonzero |-> FALSE]

\* Boolish.UnmarshalJSON that rejects what it does not recognize
BoolishStrict(data) ==
    LET s0 == TrimBytes(data)
        s1 == IF s0.quoted THEN TrimBytes(TrimQuotes(s0)) ELSE s0
        s2 == ToLower(s1)
    IN  IF IsWord(s0, "") \/ IsWord(s0, "null") THEN [err |-> "", b |-> FALSE]
        ELSE IF \E w \in {"true", "1", "yes"} : IsWord(s2, w)
        THEN [err |-> "", b |-> TRUE]
        ELSE IF \E w \in {"false", "0", "no"} : IsWord(s2, w)
        THEN [err |-> "", b |-> FALSE]
        ELSE IF ~ParseFloat(s1).err THEN [err |-> "", b |-> ParseFloat(s1).nonzero]
        ELSE [err |-> "invalid boolean", b |-> FALSE]

\* Boolish.UnmarshalJSON on a receiver that is not nil: the error it
\* returns ("" for nil) and the value it stores
BoolishUnmarshalJSON(data) ==
    LET s0 == TrimBytes(data)
        s1 == IF s0.quoted THEN TrimBytes(TrimQuotes(s0)) ELSE s0
        s2 == ToLower(s1)
    IN  IF IsWord(s0, "") \/ IsWord(s0, "null") THEN [err |-> "", b |-> FALSE]
        ELSE IF \E w \in {"true", "1", "yes"} : IsWord(s2, w)
        THEN [err |-> "", b |-> TRUE]
        ELSE IF \E w \in {"false", "0", "no"} : IsWord(s2, w)
        THEN [err |-> "", b |-> FALSE]
        ELSE IF ~ParseFloat(s1).err THEN [err |-> "", b |-> ParseFloat(s1).nonzero]
        ELSE [err |-> "", b |-> FALSE]

\* Inputs: the words of the decoder, numbers, and words it does not know
BoolWords ==
    {"", "null", "true", "false", "yes", "no", "on", "maybe", "1e999", "[1]"}
    \cup ZeroFloats \cup NonZeroFloats

RawValues ==
    {Bytes(outer, quoted, inner, upper, word) :
        outer \in BOOLEAN, quoted \in BOOLEAN, inner \in BOOLEAN,
        upper \in BOOLEAN, word \in BoolWords}

ApplyBoolish ==
    /\ fn = ""
    /\ \E data \in RawValues :
          Applied("Boolish", data, BoolishUnmarshalJSON(data))

NextBoolish == ApplyBoolish

SpecBoolish == Init /\ [][NextBoolish]_vars

----------------------------------------------------------------------------

(* Reading the wire *)

\* the exchanges of the Request that is running or has just returned
ReqLog == SubSeq(log, base + 1, Len(log))

Answered(x, st) == ~x.resp.err /\ x.resp.status = st

IsAccepted(x) == IsMutation(x) /\ Answered(x, StatusOK)

DataAt(l) == {k \in 1..Len(l) : IsData(l[k])}

InRequest == pc \in {"probe", "post", "data", "ret"}

\* an /auth exchange on which auth() gives up
FailedProbe(x) ==
    IsProbe(x) /\ (x.resp.err \/ x.resp.status \notin {StatusOK, StatusUnauthorized}
                   \/ (x.resp.status = StatusUnauthorized
                       /\ (x.resp.realm = "" \/ x.resp.challenge = "")))
FailedPost(x) == IsAuthPost(x) /\ (x.resp.err \/ x.resp.status # StatusOK)

CeilDiv(n, d) == (n + d - 1) \div d

\* what batch k (from 0) of entries has to carry
ExpectedBatch(entries, k) ==
    LET lo == routeBatchSize * k + 1
        hi == Min(routeBatchSize * (k + 1), Len(entries))
    IN  [j \in 1..(hi - lo + 1) |-> routeEnvelope(buildRoute(entries[lo + j - 1]).route)]
        \o <<saveConfigPayload>>

----------------------------------------------------------------------------
(* Claims about the session client *)

\* C1: after a first data call answered 401 the session is invalidated, one
\* handshake is run, and the same call is sent once more and never a third
\* time; a second answer other than 200 makes Request return an error.  (The
\* call is sent again only if that handshake succeeds.)
C1_RetryOnce ==
    InRequest =>
        LET R == ReqLog
            D == DataAt(R)
        IN  /\ Cardinality(D) <= 2
            /\ D # {} =>
                LET d1 == First(D)
                    after == {k \in 1..Len(R) : k > d1}
                IN  IF Answered(R[d1], StatusUnauthorized)
                    THEN /\ Len(R) = d1 => ~authed /\ pc = "probe"
                         /\ Len(R) > d1 => IsProbe(R[d1 + 1])
                         /\ Cardinality({k \in after : IsProbe(R[k])}) <= 1
                         /\ Cardinality({k \in after : IsAuthPost(R[k])}) <= 1
                         /\ \A d2 \in D \ {d1} :
                               /\ R[d2].method = R[d1].method
                               /\ R[d2].path = R[d1].path
                               /\ R[d2].payload = R[d1].payload
                               /\ IsAuth(R[d2 - 1]) /\ Answered(R[d2 - 1], StatusOK)
                               /\ Len(R) = d2
                               /\ pc = "ret"
                               /\ (res.err = "") = Answered(R[d2], StatusOK)
                         /\ pc = "ret" /\ Cardinality(D) = 1 =>
                               /\ res.err # ""
                               /\ FailedProbe(R[Len(R)]) \/ FailedPost(R[Len(R)])
                    ELSE Cardinality(D) = 1 /\ Len(R) = d1 /\ pc = "ret"

C1_Witness ==
    /\ pc = "ret"
    /\ res.err # ""
    /\ Cardinality(DataAt(ReqLog)) = 2
    /\ Answered(ReqLog[Len(ReqLog)], StatusUnauthorized)

\* C2: when Request returns right after a data call answered 401, the session
\* flag is false
C2_UnauthenticatedAfter401 ==
    (pc = "ret" /\ Len(ReqLog) > 0
        /\ IsData(ReqLog[Len(ReqLog)])
        /\ Answered(ReqLog[Len(ReqLog)], StatusUnauthorized))
    => ~authed

\* C3: the password of every POST /auth is hex(SHA-256(challenge ++
\* hex(MD5(login:realm:password)))) over the realm and challenge of the 401
\* probe answer just before it, the login is sent as it is, and the body never
\* holds the password itself
C3_Digest ==
    \A k \in 1..Len(log) :
        IsAuthPost(log[k]) =>
            /\ k > 1
            /\ IsProbe(log[k - 1])
            /\ Answered(log[k - 1], StatusUnauthorized)
            /\ log[k].login = Login
            /\ log[k].password =
                 SHA256Hex(<<log[k - 1].resp.challenge>>
                           \o MD5Hex(<<Login, ":", log[k - 1].resp.realm, ":", Password>>))
            /\ log[k].password # <<Password>>
            /\ log[k].payload = <<>>

C3_Witness ==
    \E j, k \in 1..Len(log) :
        /\ j < k
        /\ IsAuthPost(log[j]) /\ IsAuthPost(log[k])
        /\ log[j - 1].resp.challenge # log[k - 1].resp.challenge
        /\ Answered(log[k], StatusOK)

AuthTraffic(l) == Cardinality({k \in 1..Len(l) : IsAuth(l[k])})

\* C4: while the session is authenticated no /auth request is sent, and the
\* session stays authenticated until a data call is answered 401
C4_NoRehandshake ==
    [][authed =>
         /\ AuthTraffic(log') <= AuthTraffic(log)
         /\ authed' \/ (log' # <<>> /\ IsData(log'[Len(log')])
                        /\ Answered(log'[Len(log')], StatusUnauthorized))
         /\ authed' => pc' \notin {"probe", "post"}]_vars

\* a Request that ran to success in a call with no /auth exchange at all
C4_Witness ==
    /\ pc = "ret"
    /\ res.err = ""
    /\ log # <<>>
    /\ AuthTraffic(log) = 0

\* C5: a probe answered 200 authenticates at once; the next request is the
\* data call, never POST /auth
C5_ProbeOK ==
    \A k \in 1..Len(log) :
        (IsProbe(log[k]) /\ Answered(log[k], StatusOK)) =>
            IF k = Len(log)
            THEN authed /\ pc = "data"
            ELSE IsData(log[k + 1])

C5_Witness ==
    \E k \in 1..Len(log) :
        /\ IsProbe(log[k]) /\ Answered(log[k], StatusOK)
        /\ k < Len(log)
        /\ Answered(log[k + 1], StatusOK)

\* C6: a failed handshake ends the Request with an error: nothing is sent
\* after the failing /auth exchange (no data call, and after a failing probe
\* no POST /auth) and the session is not authenticated
C6_HandshakeFailure ==
    \A k \in 1..Len(log) :
        (FailedProbe(log[k]) \/ FailedPost(log[k])) =>
            /\ k = Len(log)
            /\ ~authed
            /\ pc \in {"ret", "done"}
            /\ pc = "ret" => res.err # "" /\ res.data = NoData
            /\ pc = "done" => ret.err # ""
            /\ FailedPost(log[k]) => IsProbe(log[k - 1])

C6_Witness ==
    /\ pc = "ret"
    /\ log # <<>>
    /\ IsProbe(log[Len(log)])
    /\ Answered(log[Len(log)], StatusUnauthorized)
    /\ log[Len(log)].resp.realm = ""
    /\ DataAt(log) = {}

----------------------------------------------------------------------------
(* Claims about the mutation protocol *)

Mutations(l) == SelectSeq(l, IsMutation)
Accepted(l) == SelectSeq(l, IsAccepted)

AddRoutesDone == pc = "done" /\ op.name = "AddRoutes"

\* C7: a successful AddRoutes of N > 0 routes has had ceil(N / 50) mutation
\* requests accepted, request k carrying entries 50k .. min(50k + 50, N) - 1 in
\* list order and then the save, 51 elements at most; nothing else is sent but
\* the handshake and the repeat of a request answered 401
C7_Batches ==
    (AddRoutesDone /\ Len(op.entries) > 0 /\ ret.err = "") =>
        LET N == Len(op.entries)
            M == Mutations(log)
            A == Accepted(log)
        IN  /\ Len(A) = CeilDiv(N, routeBatchSize)
            /\ \A k \in 1..Len(A) :
                  /\ A[k].payload = ExpectedBatch(op.entries, k - 1)
                  /\ Len(A[k].payload) <= routeBatchSize + 1
                  /\ Len(A[k].payload) =
                        Min(routeBatchSize, N - routeBatchSize * (k - 1)) + 1
            /\ \A k \in 1..Len(log) : IsData(log[k]) => IsMutation(log[k])
            /\ \A k \in 1..Len(M) :
                  ~IsAccepted(M[k]) =>
                      /\ Answered(M[k], StatusUnauthorized)
                      /\ k < Len(M)
                      /\ IsAccepted(M[k + 1])
                      /\ M[k + 1].payload = M[k].payload
            /\ (\A k \in 1..Len(M) : IsAccepted(M[k])) => Len(M) = CeilDiv(N, routeBatchSize)

\* 55 entries: two requests, of 51 and of 6 elements
C7_Witness ==
    /\ AddRoutesDone
    /\ ret.err = ""
    /\ Len(op.entries) = routeBatchSize + 5
    /\ Len(Mutations(log)) = 2
    /\ Len(Mutations(log)[1].payload) = 51
    /\ Len(Mutations(log)[2].payload) = 6

\* C8: every payload sent to POST rci/ ends with the save, holds no other save,
\* and every element before the save is a route envelope
C8_SaveLast ==
    \A k \in 1..Len(log) :
        IsMutation(log[k]) =>
            LET P == log[k].payload
            IN  /\ Len(P) >= 1
                /\ IsSave(P[Len(P)])
                /\ \A j \in 1..(Len(P) - 1) : IsEnvelope(P[j]) /\ ~IsSave(P[j])

C8_Witness ==
    \E k \in 1..Len(log) :
        /\ op.name = "DeleteAllRoutes"
        /\ IsMutation(log[k])
        /\ Len(log[k].payload) = 3

\* C9: AddRoutes of an empty list returns success in the same step, with
\* nothing on the wire and the session flag as it was
C9_EmptyAdd ==
    [][(pc = "idle" /\ op'.name = "AddRoutes" /\ op'.entries = <<>>) =>
          /\ pc' = "done"
          /\ ret'.err = ""
          /\ log' = <<>>
          /\ authed' = authed]_vars

C9_Witness ==
    /\ AddRoutesDone
    /\ op.entries = <<>>
    /\ authed
    /\ log = <<>>
    /\ ret.err = ""

\* the number of mutation requests accepted before exchange j of the log
AcceptedBefore(j) == Cardinality({i \in 1..(j - 1) : IsAccepted(log[i])})

\* C10 as claimed: the error of a failed batch request reports the index k of
\* the batch (the number of batches submitted before it)
C10_ReportsBatchIndex ==
    (AddRoutesDone /\ ret.err = "add routes batch at") =>
        ret.at = Len(Accepted(log))

\* C10 as amended: when the request of batch k fails, every mutation request
\* on the wire is that of the first batch not yet accepted (so batches 0 .. k-1
\* were submitted in order and no later batch was sent), none carries a delete
\* marker, the failed exchange is the last one, and the error reports 50 * k,
\* the offset of the first entry of the failed batch
C10_FailedBatch ==
    (AddRoutesDone /\ ret.err = "add routes batch at") =>
        /\ ret.at = routeBatchSize * AcceptedBefore(Len(log) + 1)
        /\ ret.cause # ""
        /\ ret.at < Len(op.entries)
        /\ ~IsAccepted(log[Len(log)])
        /\ \A j \in 1..Len(log) :
              IF IsData(log[j])
              THEN /\ IsMutation(log[j])
                   /\ log[j].payload = ExpectedBatch(op.entries, AcceptedBefore(j))
                   /\ \A e \in 1..(Len(log[j].payload) - 1) :
                         log[j].payload[e].ip.route.No = <<>>
              ELSE log[j].payload = <<>>

\* batch 1 fails after batch 0 was submitted
C10_Witness ==
    /\ AddRoutesDone
    /\ ret.err = "add routes batch at"
    /\ ret.at = routeBatchSize
    /\ Len(op.entries) > routeBatchSize
    /\ AcceptedBefore(Len(log) + 1) = 1

\* what AddRoutes returns when an entry of its first batch cannot be built: no
\* batch was submitted
NoBatchBuildFailure ==
    Result("add routes", BatchPayload(MkEntries(MaxEntries, 1), 0).err, -1, <<>>)

\* C11: a failure of AddRoutes after at least one batch was accepted returns a
\* result that differs from the result of a failure with no batch submitted
C11_PartialDistinct ==
    (AddRoutesDone /\ ret.err # "" /\ AcceptedBefore(Len(log) + 1) >= 1) =>
        ret # NoBatchBuildFailure

\* the exchanges of the log that fetch the route list, and those among them
\* that brought one
Fetches(l) == {k \in 1..Len(l) : IsData(l[k]) /\ ~IsMutation(l[k])}
Fetched(l) == {k \in Fetches(l) : Answered(l[k], StatusOK) /\ l[k].resp.data.ok}

\* C12: DeleteAllRoutes fetches with GET rci/ip/route and then makes one
\* mutation call, POST rci/, whose payload is every fetched record in fetched
\* order with no = true and then the save (the save alone when no record was
\* fetched); the mutation goes on the wire once, or twice when the first is
\* answered 401, and never when the fetch failed
C12_DeleteAll ==
    op.name = "DeleteAllRoutes" =>
        LET muts == {k \in 1..Len(log) : IsMutation(log[k])}
            got == Fetched(log)
        IN  /\ \A k \in Fetches(log) :
                  /\ log[k].method = "GET"
                  /\ log[k].path = "rci/ip/route"
                  /\ \A m \in muts : k < m
            /\ Cardinality(got) <= 1
            /\ got = {} => muts = {}
            /\ Cardinality(muts) <= 2
            /\ Cardinality({m \in muts : ~Answered(log[m], StatusUnauthorized)}) <= 1
            /\ \A m \in muts : \A g \in got :
                  LET P == log[m].payload
                      R == log[g].resp.data.routes
                  IN  /\ Len(P) = Len(R) + 1
                      /\ P[Len(P)] = saveConfigPayload
                      /\ \A j \in 1..Len(R) :
                            /\ DOMAIN P[j] = {"ip"}
                            /\ P[j].ip.route.No = <<TRUE>>
                            /\ [P[j].ip.route EXCEPT !.No = R[j].No] = R[j]
            /\ (pc = "done" /\ ret.err = "") =>
                  Cardinality({m \in muts : IsAccepted(log[m])}) = 1
            /\ (pc = "done" /\ got = {}) => ret.err # ""

\* two records were fetched and deleted
C12_Witness ==
    /\ pc = "done"
    /\ op.name = "DeleteAllRoutes"
    /\ ret.err = ""
    /\ \E g \in Fetched(log) : Len(log[g].resp.data.routes) = 2
    /\ \E m \in 1..Len(log) : IsAccepted(log[m]) /\ Len(log[m].payload) = 3

\* an IPv4 address or an IPv4 CIDR.  The IPv4-mapped notation counts as IPv4,
\* as it does for net.IP.To4.
IsIPv4Text(s) ==
    /\ s.t \in {"ip4", "cidr4", "ip4m", "cidr4m"}
    /\ Len(s.a) = 4
    /\ \A j \in 1..4 : s.a[j] \in 0..255
    /\ s.p \in 0..32

IsIPv6Text(s) == TrimSpace(s).t \in {"ip6", "cidr6"}

\* some addressing field of the record holds an IPv6 value
HoldsIPv6(r) ==
    \E v \in {r.Host, r.Network, r.IP, r.Mask} : v # <<>> /\ IsIPv6Text(v[1])

\* C14: RouteDest returns the empty destination for every record in which the
\* host, network, ip or mask field holds an IPv6 value
C14_IPv6Empty ==
    (fn = "RouteDest" /\ HoldsIPv6(arg)) => val = EmptyText

\* the four ways a record says "network a, q bits": in host, by prefix, by
\* prefixlen, by netmask
HostStyle(a, q) == [NilRoute EXCEPT !.Host = <<Cidr4(a, q)>>]
PrefixStyle(a, q) == [NilRoute EXCEPT !.Network = <<Ip4(a)>>, !.Prefix = <<q>>]
PrefixLenStyle(a, q) == [NilRoute EXCEPT !.Network = <<Ip4(a)>>, !.PrefixLen = <<q>>]
MaskStyle(a, q) ==
    [NilRoute EXCEPT !.Network = <<Ip4(a)>>, !.Mask = <<Ip4(CIDRMask(q))>>]
Styles(a, q) ==
    {HostStyle(a, q), PrefixStyle(a, q), PrefixLenStyle(a, q), MaskStyle(a, q)}

\* C15 as claimed: for every address A and length p, the records host = A/p,
\* network = A with prefix = p, network = A with prefixlen = p and network = A
\* with the netmask of length p all have the destination A/p
C15_SameDestination ==
    fn = "RouteDest" =>
        \A a \in DestAddrs, q \in DestPrefixes :
            arg \in Styles(a, q) => val = Cidr4(a, q)

\* C15 as amended: the four records have the destination A/p when
\* 1 <= p <= 32; for p = 0 the host and the netmask records have A/0
\* and the prefix and prefixlen records the bare address A
C15_SameDestinationFrom1 ==
    fn = "RouteDest" =>
        \A a \in DestAddrs, q \in DestPrefixes :
            /\ (q >= 1 /\ arg \in Styles(a, q)) => val = Cidr4(a, q)
            /\ (q = 0 /\ arg \in {HostStyle(a, q), MaskStyle(a, q)}) =>
                  val = Cidr4(a, 0)
            /\ (q = 0 /\ arg \in {PrefixStyle(a, q), PrefixLenStyle(a, q)}) =>
                  val = Ip4(a)

\* network 192.168.0.0 with mask 255.255.255.0 has 192.168.0.0/24
C15_Witness ==
    /\ fn = "RouteDest"
    /\ arg = MaskStyle(<<192, 168, 0, 0>>, 24)
    /\ arg.Mask = <<Ip4(<<255, 255, 255, 0>>)>>
    /\ val = Cidr4(<<192, 168, 0, 0>>, 24)

\* N >= 1 canonical routes (IPv4 address or CIDR in dotted notation) that
\* share their comment, gateway, interface, auto and reject
SharedAttrs(list) ==
    /\ Len(list) >= 1
    /\ \A k \in 1..Len(list) :
          /\ list[k].Host.t \in {"ip4", "cidr4"}
          /\ routeGroupKey(list[k]) = routeGroupKey(list[1])

\* a destination with the host bits of a CIDR cleared
NetworkForm(s) == IF s.t = "cidr4" THEN Cidr4(MaskIP(s.a, s.p), s.p) ELSE s

\* the file has one group, with the attributes of the routes and their
\* destinations in order
OneGroup(file, list) ==
    /\ Len(file[1].Routes) = 1
    /\ LET g == file[1].Routes[1]
       IN  /\ g.Hosts = [k \in 1..Len(list) |-> list[k].Host]
           /\ routeGroupKey(g) = routeGroupKey(list[1])

\* C16 as claimed: for N canonical routes that share their attributes ToYAML
\* makes one group with the N hosts in order, and FlattenToEntries of it
\* succeeds and returns the N routes again
C16_RoundTrip ==
    (fn = "ToYAML" /\ SharedAttrs(arg)) =>
        /\ OneGroup(val.yaml, arg)
        /\ val.flat.err = NoError
        /\ val.flat.routes = arg

\* C16 as amended: ToYAML makes the one group; FlattenToEntries of it
\* succeeds iff the routes have exactly one of gateway and interface, and then
\* returns the N routes in order with their attributes and with every CIDR
\* destination in network-address form (the routes themselves when their
\* destinations are in that form already); otherwise it fails on the group
C16_RoundTripNormalized ==
    (fn = "ToYAML" /\ SharedAttrs(arg)) =>
        /\ OneGroup(val.yaml, arg)
        /\ IF (arg[1].Gateway # "") # (arg[1].Interface # "")
           THEN /\ val.flat.err = NoError
                /\ val.flat.routes =
                      [k \in 1..Len(arg) |->
                         [arg[k] EXCEPT !.Host = NetworkForm(arg[k].Host)]]
                /\ (\A k \in 1..Len(arg) : NetworkForm(arg[k].Host) = arg[k].Host)
                      => val.flat.routes = arg
           ELSE /\ val.flat.err.kind = "group"
                /\ val.flat.routes = <<>>

\* three routes of one gateway come back as they were
C16_Witness ==
    /\ fn = "ToYAML"
    /\ SharedAttrs(arg)
    /\ Len(arg) = 3
    /\ arg[1].Host # arg[2].Host
    /\ arg[1].Gateway # ""
    /\ Len(val.yaml[1].Routes) = 1
    /\ val.flat.routes = arg

\* the groups of a file
FileGroups(rf) == IF rf = NilFile THEN <<>> ELSE rf[1].Routes

\* both gateway and interface, or neither
BadGateway(g) == (g.Gateway # "") = (g.Interface # "")

ParsesAsIPv4(h) ==
    IF ContainsSlash(h)
    THEN TrimSpace(h).t \in {"cidr4", "cidr4m"}
    ELSE TrimSpace(h).t \in {"ip4", "ip4m"}

\* the dotted form of such a host, a CIDR in network-address form
Dotted(h) ==
    LET s == TrimSpace(h)
    IN  IF ContainsSlash(s) THEN Cidr4(MaskIP(s.a, s.p), s.p) ELSE Ip4(s.a)

\* one route per host, in group order then host order, from group i on
RECURSIVE RoutesOfHosts(_, _)
RoutesOfHosts(groups, i) ==
    IF i > Len(groups) THEN <<>>
    ELSE [k \in 1..Len(groups[i].Hosts) |->
            DomainRoute(Dotted(groups[i].Hosts[k]), groups[i].Comment,
                        groups[i].Gateway, groups[i].Interface,
                        groups[i].Auto, groups[i].Reject)]
         \o RoutesOfHosts(groups, i + 1)

\* C18: FlattenToEntries fails, with no routes, when some host is empty,
\* malformed or IPv6, and a host error names the group and the bad host;
\* otherwise (the groups with hosts having one of gateway and interface) it
\* returns one route per host in group order then host order, with the group's
\* attributes and the host as a dotted IPv4 address or as an IPv4 CIDR in
\* network-address form
C18_FlattenNormalizes ==
    fn = "FlattenToEntries" =>
        LET groups == FileGroups(arg)
            used == {k \in 1..Len(groups) : Len(groups[k].Hosts) > 0}
            bad == {<<k, j>> \in used \X (1..MaxHosts + 1) :
                       j <= Len(groups[k].Hosts) /\ ~ParsesAsIPv4(groups[k].Hosts[j])}
        IN  /\ bad # {} => val.err # NoError /\ val.routes = <<>>
            /\ val.err.kind = "host" =>
                  \E b \in bad : /\ val.err.group = groups[b[1]].Comment
                                 /\ val.err.host = groups[b[1]].Hosts[b[2]]
            /\ (bad = {} /\ \A k \in used : ~BadGateway(groups[k])) =>
                  /\ val.err = NoError
                  /\ val.routes = RoutesOfHosts(groups, 1)
            /\ \A j \in 1..Len(val.routes) :
                  /\ val.routes[j].Host.t \in {"ip4", "cidr4"}
                  /\ NetworkForm(val.routes[j].Host) = val.routes[j].Host

\* the hosts of every group that has domains are pairwise different
NoHostTwice(rf) ==
    \A k \in 1..Len(FileGroups(rf)) :
        LET g == FileGroups(rf)[k]
        IN  Len(g.Domains) > 0 =>
               \A i, j \in 1..Len(g.Hosts) : g.Hosts[i] = g.Hosts[j] => i = j

\* C19: a run of ResolveDomainsWithResolver on the file a successful run left,
\* with the same resolver answers, succeeds, leaves the host list of every
\* group as it was, with no host twice, and reports IPsAdded = 0
C19_Idempotent ==
    fn = "ResolveAgain" =>
        /\ val.err = NoResolveError
        /\ val.file = arg.file
        /\ NoHostTwice(val.file)
        /\ val.summary.IPsAdded = 0
        /\ val.summary.Groups = arg.prev.summary.Groups
        /\ val.summary.Domains = arg.prev.summary.Domains

\* the first run added two addresses to a group that had a host, the second
\* none
C19_Witness ==
    /\ fn = "ResolveAgain"
    /\ arg.prev.summary.IPsAdded = 2
    /\ Len(FileGroups(arg.file)) = 1
    /\ Len(FileGroups(arg.file)[1].Hosts) = 3
    /\ val.summary.Domains = 2
    /\ val.summary.IPsAdded = 0
    /\ val.file = arg.file

\* the distinct domains of a group, trimmed, in the order of their first
\* entries
DistinctDomains(g) ==
    Dedupe([k \in 1..Len(g.Domains) |-> TrimSpace(g.Domains[k])], 1, <<>>)

\* what a run that succeeds asks the resolver for, from group i on: in every
\* group each distinct domain that is no literal address, once; and the
\* number of distinct domains of the groups
RECURSIVE LookupsOf(_, _)
LookupsOf(groups, i) ==
    IF i > Len(groups) THEN <<>>
    ELSE SelectSeq(DistinctDomains(groups[i]), LAMBDA d : ~ParsesIP(d))
         \o LookupsOf(groups, i + 1)

RECURSIVE DomainsOf(_, _)
DomainsOf(groups, i) ==
    IF i > Len(groups) THEN 0
    ELSE Len(DistinctDomains(groups[i])) + DomainsOf(groups, i + 1)

IsPrefix(p, q) == Len(p) <= Len(q) /\ SubSeq(q, 1, Len(p)) = p

\* C20: a run asks the resolver for each distinct domain of a group at most
\* once (what it asks is a prefix of the distinct domains in order, and all
\* of them when it succeeds), a successful run reports as Domains the number
\* of distinct domains, and the next run asks for all of them again
C20_OncePerGroup ==
    /\ fn \in {"ResolveDomains", "ResolveAgain"} =>
          /\ IsPrefix(val.lookups, LookupsOf(FileGroups(arg.file), 1))
          /\ val.summary.Domains <= DomainsOf(FileGroups(arg.file), 1)
          /\ val.err = NoResolveError =>
                /\ val.lookups = LookupsOf(FileGroups(arg.file), 1)
                /\ val.summary.Domains = DomainsOf(FileGroups(arg.file), 1)
    /\ fn = "ResolveAgain" => val.lookups = arg.prev.lookups

\* a group names one domain twice: each run looks it up once
C20_Witness ==
    /\ fn = "ResolveAgain"
    /\ Len(FileGroups(arg.file)) = 1
    /\ FileGroups(arg.file)[1].Domains = <<Junk(1), Padded(Junk(1))>>
    /\ arg.prev.lookups = <<Junk(1)>>
    /\ val.lookups = <<Junk(1)>>
    /\ val.summary.Domains = 1

\* the hosts a group had before the call, trimmed, without the blank ones and
\* the later copies
PreviousHosts(g) ==
    Dedupe(SelectSeq([k \in 1..Len(g.Hosts) |-> TrimSpace(g.Hosts[k])],
                     LAMBDA h : h # EmptyText), 1, <<>>)

\* the IPv4 addresses a domain stands for: itself when it is a literal
\* address, what the resolver answers otherwise
Discovered(resolver, d) ==
    IF ParsesIP(d) THEN <<Ip4(d.a)>>
    ELSE LET v4 == SelectSeq(resolver[d].addrs, LAMBDA x : x.t \in {"ip4", "ip4m"})
         IN  [k \in 1..Len(v4) |-> Ip4(v4[k].a)]

\* the addresses found for the distinct domains of a group from domain k on,
\* in the order of discovery
RECURSIVE DiscoveredFrom(_, _, _)
DiscoveredFrom(resolver, ds, k) ==
    IF k > Len(ds) THEN <<>>
    ELSE Discovered(resolver, ds[k]) \o DiscoveredFrom(resolver, ds, k + 1)

\* the number of hosts the groups with domains gained, from group i on
RECURSIVE Growth(_, _, _)
Growth(before, after, i) ==
    IF i > Len(before) THEN 0
    ELSE (IF Len(before[i].Domains) = 0 THEN 0
          ELSE Len(after[i].Hosts) - Len(PreviousHosts(before[i])))
         + Growth(before, after, i + 1)

\* C21: after a successful run the host list of every group with domains has
\* no host twice and is the previous hosts in first-seen order followed by
\* the new IPv4 addresses in the order of discovery; what is appended is
\* dotted IPv4 only, and IPsAdded is the number of hosts appended
C21_MergedHosts ==
    (fn \in {"ResolveDomains", "ResolveAgain"} /\ val.err = NoResolveError) =>
        /\ Len(FileGroups(val.file)) = Len(FileGroups(arg.file))
        /\ \A i \in 1..Len(FileGroups(arg.file)) :
              LET g == FileGroups(arg.file)[i]
                  hosts == FileGroups(val.file)[i].Hosts
                  prev == PreviousHosts(g)
                  found == DiscoveredFrom(arg.resolver, DistinctDomains(g), 1)
              IN  Len(g.Domains) > 0 =>
                     /\ \A j, k \in 1..Len(hosts) : hosts[j] = hosts[k] => j = k
                     /\ IsPrefix(prev, hosts)
                     /\ hosts = Dedupe(prev \o found, 1, <<>>)
                     /\ \A j \in (Len(prev) + 1)..Len(hosts) : hosts[j].t = "ip4"
        /\ val.summary.IPsAdded
              = Growth(FileGroups(arg.file), FileGroups(val.file), 1)

\* a group with a padded, a blank, a repeated and a junk host gains the one
\* address of two domains that it did not hold
C21_Witness ==
    /\ fn = "ResolveDomains"
    /\ val.err = NoResolveError
    /\ Len(FileGroups(arg.file)) = 1
    /\ FileGroups(arg.file)[1].Hosts
          = <<Padded(Ip4(<<1, 1, 1, 1>>)), EmptyText, Ip4(<<1, 1, 1, 1>>), Junk(3)>>
    /\ FileGroups(arg.file)[1].Domains = <<Junk(1), Junk(2)>>
    /\ FileGroups(val.file)[1].Hosts
          = <<Ip4(<<1, 1, 1, 1>>), Junk(3), Ip4(<<2, 2, 2, 2>>)>>
    /\ val.summary.IPsAdded = 1

\* why the lookup of a domain fails, "" when it does not (and for the blank
\* entry, which is never looked up): a literal address that is not IPv4, an error of the resolver, an answer without IPv4 address
FailureOf(resolver, d) ==
    IF d.t \in {"", "ip4", "ip4m"} THEN ""
    ELSE IF d.t = "ip6" THEN "IPv6 is not supported"
    ELSE IF resolver[d].err # "" THEN resolver[d].err
    ELSE IF \A k \in 1..Len(resolver[d].addrs) :
                resolver[d].addrs[k].t \notin {"ip4", "ip4m"}
    THEN "no IPv4 records found"
    ELSE ""

\* the causes of the errors that name a domain
LookupCauses == {"IPv6 is not supported", "no such host", "no IPv4 records found"}

\* the positions of the distinct domains of g whose lookup fails
Failing(resolver, g) ==
    {k \in 1..Len(DistinctDomains(g)) :
        FailureOf(resolver, DistinctDomains(g)[k]) # ""}

\* C22: a run over groups of which one with domains has a domain whose lookup
\* fails (resolver error, no IPv4 address in the answer, literal address that
\* is not IPv4) returns an error; the error of a failed lookup names the
\* group and the domain, and in a file of one well-formed group it is the
\* first failing domain; a literal IPv4 address is never handed to the
\* resolver and, when the run succeeds, is among the hosts of its group
C22_LookupFailuresFatal ==
    fn \in {"ResolveDomains", "ResolveAgain"} =>
        LET groups == FileGroups(arg.file)
        IN  /\ (\E i \in 1..Len(groups) :
                   Len(groups[i].Domains) > 0 /\ Failing(arg.resolver, groups[i]) # {})
                => val.err # NoResolveError
            /\ val.err.cause \in LookupCauses =>
                  \E i \in 1..Len(groups) :
                      /\ Len(groups[i].Domains) > 0
                      /\ val.err.label = groupLabel(groups[i], i - 1)
                      /\ \E k \in Failing(arg.resolver, groups[i]) :
                            /\ val.err.domain = DistinctDomains(groups[i])[k]
                            /\ val.err.cause = FailureOf(arg.resolver, val.err.domain)
            /\ (/\ Len(groups) = 1
                /\ ~BadGateway(groups[1])
                /\ \A k \in 1..Len(groups[1].Domains) :
                      TrimSpace(groups[1].Domains[k]) # EmptyText
                /\ Failing(arg.resolver, groups[1]) # {})
                => LET d == DistinctDomains(groups[1])[First(Failing(arg.resolver, groups[1]))]
                   IN  val.err = ResolveError(groupLabel(groups[1], 0), d,
                                              FailureOf(arg.resolver, d))
            /\ \A k \in 1..Len(val.lookups) : ~ParsesIP(val.lookups[k])
            /\ val.err = NoResolveError =>
                  \A i \in 1..Len(groups) :
                      \A k \in 1..Len(groups[i].Domains) :
                          LET d == TrimSpace(groups[i].Domains[k])
                          IN  d.t \in {"ip4", "ip4m"} =>
                                 \E j \in 1..Len(FileGroups(val.file)[i].Hosts) :
                                     FileGroups(val.file)[i].Hosts[j] = Ip4(d.a)

\* the resolver answers the second domain of an uncommented group with IPv6
\* addresses only: the run fails and names group #1 and that domain
C22_Witness ==
    /\ fn = "ResolveDomains"
    /\ Len(FileGroups(arg.file)) = 2
    /\ FileGroups(arg.file)[1].Comment = ""
    /\ FileGroups(arg.file)[1].Domains = <<Junk(1), Junk(2)>>
    /\ arg.resolver[Junk(2)] = Answer("", <<Ip6(1)>>)
    /\ val.err = ResolveError("#1", Junk(2), "no IPv4 records found")
    /\ val.lookups = <<Junk(1), Junk(2)>>

\* a literal IPv4 address as the only domain: no lookup, the address is added
C22_WitnessLiteral ==
    /\ fn = "ResolveDomains"
    /\ Len(FileGroups(arg.file)) = 1
    /\ FileGroups(arg.file)[1].Domains = <<Ip4(<<9, 9, 9, 9>>)>>
    /\ FileGroups(arg.file)[1].Hosts = <<>>
    /\ val.err = NoResolveError
    /\ val.lookups = <<>>
    /\ FileGroups(val.file)[1].Hosts = <<Ip4(<<9, 9, 9, 9>>)>>

\* the sources of a field in the order of their priority: the flag, the
\* config file, the environment, .env.  <<>> stands for a source that does
\* not decide: an empty flag, an empty or absent key of the config file, a
\* variable that is not set
SourcesOf(f) ==
    <<IF arg.flags[f] = "" THEN <<>> ELSE <<arg.flags[f]>>,
      IF arg.file.state # "ok" \/ arg.file.cfg[f] = "" THEN <<>> ELSE <<arg.file.cfg[f]>>,
      arg.env[f],
      IF arg.dotenv.state # "ok" THEN <<>> ELSE arg.dotenv.vars[f]>>

\* the value of the first source that decides, "" when none does
RECURSIVE FirstOf(_, _)
FirstOf(sources, k) ==
    IF k > Len(sources) THEN ""
    ELSE IF sources[k] # <<>> THEN sources[k][1]
    ELSE FirstOf(sources, k + 1)

\* C23: LoadConfig gives each of host, user and password the value of the
\* first of flag, config file, environment and .env that holds one: a
\* non-empty flag wins, then a non-empty value of the config file, and the
\* environment and then .env decide only a field the config file leaves empty
C23_Priority ==
    (fn = "LoadConfig" /\ val.err = "") =>
        \A f \in ConfigFields :
            /\ val.cfg[1][f] = FirstOf(SourcesOf(f), 1)
            /\ arg.flags[f] # "" => val.cfg[1][f] = arg.flags[f]
            /\ (arg.flags[f] = "" /\ arg.file.state = "ok" /\ arg.file.cfg[f] # "")
                  => val.cfg[1][f] = arg.file.cfg[f]
            /\ val.cfg[1][f] \in {Value("env", f), Value("dotenv", f)}
                  => (arg.file.state # "ok" \/ arg.file.cfg[f] = "")

\* the four sources decide one field each: the flag the host, the config
\* file the user, the environment the password although .env holds it too
C23_Witness ==
    /\ fn = "LoadConfig"
    /\ val.err = ""
    /\ arg.flags = Config(Value("flag", "Host"), "", "")
    /\ arg.file.state = "ok"
    /\ arg.file.cfg = Config(Value("file", "Host"), Value("file", "User"), "")
    /\ arg.env = [f \in ConfigFields |-> <<Value("env", f)>>]
    /\ arg.dotenv.state = "ok"
    /\ arg.dotenv.vars["Password"] = <<Value("dotenv", "Password")>>
    /\ val.cfg = <<Config(Value("flag", "Host"), Value("file", "User"),
                          Value("env", "Password"))>>

\* a data call that failed otherwise than by 401: no answer, or a status
\* that is neither 200 nor 401
FailedData(x) ==
    IsData(x) /\ (x.resp.err \/ x.resp.status \notin {StatusOK, StatusUnauthorized})

\* C24: a data call that fails at transport level or is answered with a
\* status other than 200 and 401 is the last exchange of the call: Request
\* returns an error right after it, nothing (no data call, no /auth request)
\* is sent after it, and the session flag is still true
C24_NoOtherRetry ==
    \A k \in 1..Len(log) :
        FailedData(log[k]) =>
            /\ k = Len(log)
            /\ pc \in {"ret", "done"}
            /\ pc = "ret" => res.err \in {"request", "request status"}
            /\ pc = "done" => ret.err # ""
            /\ authed

\* the first data call of an authenticated session is answered 500 and
\* Request returns the error at once
C24_Witness ==
    /\ pc = "ret"
    /\ Len(ReqLog) = 1
    /\ IsData(ReqLog[1])
    /\ Answered(ReqLog[1], 500)
    /\ res.err = "request status"
    /\ authed

\* the text of a field of a record without the white space around it,
\* EmptyText for a field that is not set
FieldText(v) ==
    IF v = <<>> THEN EmptyText
    ELSE IF v[1].t \in TextKinds THEN v[1]
    ELSE [v[1] EXCEPT !.t = CHOOSE t \in TextKinds : v[1].t = " " \o t \o " "]

\* the number of a field, 0 for a field that is not set
FieldNumber(v) == IF v = <<>> THEN 0 ELSE v[1]

\* the length information of a record: the prefix when it is 1..32, else
\* prefixlen when it is 1..32, else the bit length of the mask when the mask
\* is an IPv4 address (0 for one that is not ones followed by zeros), else
\* none (<<>>)
LengthOf(r) ==
    LET mask == FieldText(r.Mask)
    IN  IF FieldNumber(r.Prefix) \in 1..32 THEN <<FieldNumber(r.Prefix)>>
        ELSE IF FieldNumber(r.PrefixLen) \in 1..32 THEN <<FieldNumber(r.PrefixLen)>>
        ELSE IF mask.t \in {"ip4", "ip4m"}
        THEN IF \E n \in 0..32 : CIDRMask(n) = mask.a
             THEN <<CHOOSE n \in 0..32 : CIDRMask(n) = mask.a>>
             ELSE <<0>>
        ELSE <<>>

C26_OneStyle ==
    (fn = "buildRoute" /\ val.err = "") =>
        LET r == val.route
        IN  /\ IF ContainsSlash(arg.Host)
               THEN r.Host = <<>> /\ r.Network # <<>> /\ r.Mask # <<>>
               ELSE r.Host = <<arg.Host>> /\ r.Network = <<>> /\ r.Mask = <<>>
            /\ (r.Host # <<>>) # (r.Network # <<>> /\ r.Mask # <<>>)
            /\ r.Prefix = <<>> /\ r.PrefixLen = <<>> /\ r.IP = <<>> /\ r.No = <<>>
            /\ r.Gateway = (IF arg.Gateway = "" THEN <<>> ELSE <<arg.Gateway>>)
            /\ r.Interface = (IF arg.Interface = "" THEN <<>> ELSE <<arg.Interface>>)
            /\ r.Reject = (IF arg.Reject THEN <<TRUE>> ELSE <<>>)

\* a CIDR with a gateway and no interface: network and mask, gateway set,
\* interface and reject not
C26_Witness ==
    /\ fn = "buildRoute"
    /\ arg = DomainRoute(Cidr4(<<10, 1, 2, 3>>, 16), "test", "10.0.0.1", "", TRUE, FALSE)
    /\ val.err = ""
    /\ val.route = [NilRoute EXCEPT !.Network = <<Ip4(<<10, 1, 0, 0>>)>>,
                                    !.Mask = <<Ip4(<<255, 255, 0, 0>>)>>,
                                    !.Comment = <<"test">>, !.Auto = <<TRUE>>,
                                    !.Gateway = <<"10.0.0.1">>]

\* the attributes of a route or of a group
AttrsOf(x) == <<x.Comment, x.Gateway, x.Interface, x.Auto, x.Reject>>

\* the positions of the routes ToYAML has to keep: those with a destination
\* that is an IPv4 address or CIDR
KeptAt(list) ==
    {i \in 1..Len(list) : list[i].Host.t \in {"ip4", "ip4m", "cidr4", "cidr4m"}}

\* the positions of the kept routes with the attributes of group g
MembersAt(list, g) == {i \in KeptAt(list) : AttrsOf(list[i]) = AttrsOf(g)}

\* the n-th least element of a set of numbers
Nth(S, n) == CHOOSE i \in S : Cardinality({j \in S : j <= i}) = n

\* C27: the groups of ToYAML(list) have pairwise different attribute tuples;
\* every group holds the destinations of exactly the kept routes with its
\* tuple, one host per occurrence, in the order of the list; the groups are
\* in the order in which their first routes occur; a route with an empty or
\* non-IPv4 destination is in no group
C27_Partition ==
    fn = "ToYAML" =>
        LET groups == FileGroups(val.yaml)
        IN  /\ \A j, k \in 1..Len(groups) :
                  AttrsOf(groups[j]) = AttrsOf(groups[k]) => j = k
            /\ \A i \in KeptAt(arg) :
                  \E k \in 1..Len(groups) : AttrsOf(groups[k]) = AttrsOf(arg[i])
            /\ \A k \in 1..Len(groups) :
                  LET M == MembersAt(arg, groups[k])
                  IN  /\ M # {}
                      /\ Len(groups[k].Hosts) = Cardinality(M)
                      /\ \A n \in 1..Cardinality(M) :
                            groups[k].Hosts[n] = arg[Nth(M, n)].Host
                      /\ groups[k].Domains = <<>>
            /\ \A j, k \in 1..Len(groups) :
                  j < k => First(MembersAt(arg, groups[j])) < First(MembersAt(arg, groups[k]))

\* three routes, the first and the third with the same attributes: two
\* groups, the first with two hosts
C27_Witness ==
    /\ fn = "ToYAML"
    /\ Len(arg) = 3
    /\ arg[1] = DomainRoute(Ip4(<<8, 8, 8, 8>>), "vpn", "", "Wireguard0", FALSE, TRUE)
    /\ arg[2] = DomainRoute(Cidr4(<<192, 168, 0, 0>>, 24), "test", "10.0.0.1", "",
                            TRUE, FALSE)
    /\ arg[3] = DomainRoute(Cidr4(<<10, 1, 2, 3>>, 16), "vpn", "", "Wireguard0",
                            FALSE, TRUE)
    /\ Len(FileGroups(val.yaml)) = 2
    /\ FileGroups(val.yaml)[1].Hosts = <<Ip4(<<8, 8, 8, 8>>), Cidr4(<<10, 1, 2, 3>>, 16)>>
    /\ FileGroups(val.yaml)[2].Hosts = <<Cidr4(<<192, 168, 0, 0>>, 24)>>

\* the name of group number k (from 1) of a file: its comment, quoted, or
\* its number when it has no comment
NameOfGroup(g, k) ==
    IF g.Comment # "" THEN "\"" \o g.Comment \o "\"" ELSE "#" \o ToString(k)

\* C28: the gateway/interface validation error of FlattenToEntries and of
\* ResolveDomainsWithResolver names a group that was checked and breaks the
\* rule: by its comment, or by its number when it has no comment
C28_NamesGroup ==
    /\ (fn = "FlattenToEntries" /\ val.err.kind = "group") =>
          \E k \in 1..Len(FileGroups(arg)) :
              /\ Len(FileGroups(arg)[k].Hosts) > 0
              /\ BadGateway(FileGroups(arg)[k])
              /\ "\"" \o val.err.group \o "\"" = NameOfGroup(FileGroups(arg)[k], k)
    /\ (/\ fn \in {"ResolveDomains", "ResolveAgain"}
        /\ val.err.cause = "set exactly one of gateway or interface") =>
          \E k \in 1..Len(FileGroups(arg.file)) :
              /\ Len(FileGroups(arg.file)[k].Domains) > 0
              /\ BadGateway(FileGroups(arg.file)[k])
              /\ val.err.label = NameOfGroup(FileGroups(arg.file)[k], k)

\* the part of C28 that is about the resolution
C28_ResolveNamesGroup ==
    (/\ fn \in {"ResolveDomains", "ResolveAgain"}
     /\ val.err.cause = "set exactly one of gateway or interface") =>
        \E k \in 1..Len(FileGroups(arg.file)) :
            /\ Len(FileGroups(arg.file)[k].Domains) > 0
            /\ BadGateway(FileGroups(arg.file)[k])
            /\ val.err.label = NameOfGroup(FileGroups(arg.file)[k], k)

\* the second group of a file has no comment, neither gateway nor interface,
\* and a domain: the resolution fails and names group #2
C28_ResolveWitness ==
    /\ fn = "ResolveDomains"
    /\ Len(FileGroups(arg.file)) = 2
    /\ FileGroups(arg.file)[2] = RouteGroup("", "", "", FALSE, FALSE, <<>>, <<Junk(2)>>)
    /\ val.err = ResolveError("#2", EmptyText, "set exactly one of gateway or interface")

\* a group without its hosts
WithoutHosts(g) == [g EXCEPT !.Hosts = <<>>]

\* C29: a run of ResolveDomainsWithResolver, failed or not, leaves the number
\* and order of the groups and every group's domains, comment, gateway,
\* interface, auto and reject as they were, and leaves a group without
\* domains as it was, hosts included
C29_OnlyHosts ==
    fn \in {"ResolveDomains", "ResolveAgain"} =>
        /\ (arg.file = NilFile) = (val.file = NilFile)
        /\ Len(FileGroups(val.file)) = Len(FileGroups(arg.file))
        /\ \A i \in 1..Len(FileGroups(arg.file)) :
              LET before == FileGroups(arg.file)[i]
                  after == FileGroups(val.file)[i]
              IN  /\ WithoutHosts(after) = WithoutHosts(before)
                  /\ Len(before.Domains) = 0 => after = before

\* the first group gains two hosts; the second has no domains and keeps its
\* padded, blank and repeated hosts
C29_Witness ==
    /\ fn = "ResolveDomains"
    /\ val.err = NoResolveError
    /\ Len(FileGroups(arg.file)) = 2
    /\ FileGroups(arg.file)[1].Hosts = <<>>
    /\ Len(FileGroups(val.file)[1].Hosts) = 2
    /\ FileGroups(arg.file)[2].Domains = <<>>
    /\ FileGroups(arg.file)[2].Hosts
          = <<Padded(Ip4(<<1, 1, 1, 1>>)), EmptyText, Ip4(<<1, 1, 1, 1>>), Junk(3)>>
    /\ FileGroups(val.file)[2] = FileGroups(arg.file)[2]

\* a run that fails at the second group has changed the hosts of the first
\* and nothing else
C29_WitnessFailed ==
    /\ fn = "ResolveDomains"
    /\ val.err # NoResolveError
    /\ Len(FileGroups(arg.file)) = 2
    /\ FileGroups(val.file)[1].Hosts # FileGroups(arg.file)[1].Hosts
    /\ FileGroups(val.file)[2] = FileGroups(arg.file)[2]

\* the words that stand for true and for false
TrueWords == {"true", "1", "yes"}
FalseWords == {"false", "0", "no"}

\* C30: decoding a Boolish returns no error, whatever the bytes; it stores
\* true for true, 1 and yes and for every number that parses and is not
\* zero, in either case, quoted or not, and false for everything else:
\* false, 0, no, zero, null, nothing, and every word it does not recognize
C30_BoolishNeverFails ==
    fn = "Boolish" =>
        /\ val.err = ""
        /\ val.b = (arg.word \in TrueWords \cup NonZeroFloats)
        /\ arg.word \in FalseWords \cup ZeroFloats \cup {"", "null"} => ~val.b
        /\ arg.word \notin TrueWords \cup FalseWords \cup ZeroFloats \cup NonZeroFloats
              => ~val.b

\* " YES " in quotes with white space around it decodes to true
C30_Witness ==
    /\ fn = "Boolish"
    /\ arg = Bytes(TRUE, TRUE, TRUE, TRUE, "yes")
    /\ val = [err |-> "", b |-> TRUE]

\* a word the decoder does not know decodes to false, without error
C30_WitnessUnknown ==
    /\ fn = "Boolish"
    /\ arg = Bytes(FALSE, TRUE, FALSE, FALSE, "maybe")
    /\ val = [err |-> "", b |-> FALSE]

\* the step sends a data call
SendsData == Len(log') = Len(log) + 1 /\ IsData(log'[Len(log')])

\* the step lets Request return data
ReturnsData == pc # "ret" /\ pc' = "ret" /\ res'.err = ""

\* C31: a data call, the first of a Request or the retried one, is sent only
\* while the session flag is true, and when it is not the first exchange of
\* the Request it follows at once on an /auth exchange answered 200; the
\* flag is set only by an /auth exchange answered 200; Request returns data
\* only from a data call answered 200, and then leaves the flag true
C31_AuthenticatedData ==
    [][/\ SendsData =>
             /\ authed
             /\ Len(log) > base =>
                   IsAuth(log[Len(log)]) /\ Answered(log[Len(log)], StatusOK)
       /\ (~authed /\ authed') =>
             /\ Len(log') = Len(log) + 1
             /\ IsAuth(log'[Len(log')])
             /\ Answered(log'[Len(log')], StatusOK)
       /\ ReturnsData =>
             /\ SendsData
             /\ Answered(log'[Len(log')], StatusOK)
             /\ res'.data = log'[Len(log')].resp.data
             /\ authed']_vars

\* Request returns data from the retried call: handshake, data call answered
\* 401, handshake again, data call answered 200
C31_Witness ==
    /\ pc = "ret"
    /\ res.err = ""
    /\ authed
    /\ Cardinality(DataAt(ReqLog)) = 2
    /\ IsProbe(ReqLog[1])
    /\ Answered(ReqLog[First(DataAt(ReqLog))], StatusUnauthorized)
    /\ IsAuth(ReqLog[Len(ReqLog) - 1])
    /\ Answered(ReqLog[Len(ReqLog)], StatusOK)

\* a destination that is a bare IPv4 address or an IPv4 CIDR in network form
BareOrNetwork(h) == h.t \in {"ip4", "cidr4"} /\ NetworkForm(h) = h

\* a string with no white space around it, and what is left of a string
\* when the white space around it is taken away
Unpadded(s) == s \in Words
Stripped(s) == IF Unpadded(s) THEN s ELSE CHOOSE w \in Words : s = " " \o w \o " "

\* C32: for a canonical route whose destination is a bare IPv4 address or an
\* IPv4 CIDR in network form, buildRoute succeeds, RouteDest of the record
\* is the destination of the route, and the accessors of the record return
\* the comment, gateway, interface, auto and reject of the route
C32_RoundTrip ==
    (fn = "buildRoute" /\ BareOrNetwork(arg.Host)) =>
        /\ val.err = ""
        /\ val.dest = arg.Host
        /\ val.back = arg

\* C32 as amended: the same, but the accessors return the comment, gateway
\* and interface without the white space around them, so the attributes
\* come back as they were only when they have none
C32_RoundTripTrimmed ==
    (fn = "buildRoute" /\ BareOrNetwork(arg.Host)) =>
        /\ val.err = ""
        /\ val.dest = arg.Host
        /\ val.back = DomainRoute(arg.Host, Stripped(arg.Comment),
                                  Stripped(arg.Gateway), Stripped(arg.Interface),
                                  arg.Auto, arg.Reject)
        /\ (Unpadded(arg.Comment) /\ Unpadded(arg.Gateway) /\ Unpadded(arg.Interface))
              => val.back = arg

\* a CIDR in network form goes out as network and mask and comes back as it
\* was, with its attributes
C32_Witness ==
    /\ fn = "buildRoute"
    /\ arg = DomainRoute(Cidr4(<<192, 168, 0, 0>>, 24), "test", "", "Wireguard0",
                         FALSE, TRUE)
    /\ val.route.Host = <<>>
    /\ val.route.Mask = <<Ip4(<<255, 255, 255, 0>>)>>
    /\ val.dest = Cidr4(<<192, 168, 0, 0>>, 24)
    /\ val.back = arg


(* C33 *)

\* the fetched lists GetDomainRoutes rejects: toDomainRoutes finds a record
\* with no derivable destination
Underivable(routes) == toDomainRoutes(routes).err # ""

\* the places of the mutation calls on a wire
MutationsAt(l) == {k \in 1..Len(l) : IsMutation(l[k])}

\* C33: DeleteAllRoutes does not validate destinations.  Once its fetch is
\* decoded the call goes on to the mutation whatever the records are: every
\* mutation on the wire carries each fetched record, in place and with
\* no = true, also the records with no derivable destination, and a finished
\* call that fetched a list succeeds exactly when its mutation was accepted,
\* never failing with the destination error of GetDomainRoutes
C33_DeleteAllUnvalidated ==
    op.name = "DeleteAllRoutes" =>
        \A g \in Fetched(log) :
            LET routes == log[g].resp.data.routes
            IN  /\ \A m \in MutationsAt(log) :
                    /\ m > g
                    /\ Len(log[m].payload) = Len(routes) + 1
                    /\ \A k \in 1..Len(routes) :
                           log[m].payload[k]
                               = routeEnvelope([routes[k] EXCEPT !.No = <<TRUE>>])
                /\ pc = "done" =>
                       /\ ret.err = ""
                              <=> \E m \in MutationsAt(log) : IsAccepted(log[m])
                       /\ ret.err # "unsupported route destination (IPv4 only)"

\* DeleteAllRoutes has succeeded on a fetched list that GetDomainRoutes
\* rejects: the IPv6 record is in the accepted payload
C33_Witness ==
    /\ pc = "done"
    /\ op.name = "DeleteAllRoutes"
    /\ ret.err = ""
    /\ \E g \in Fetched(log) :
           /\ Underivable(log[g].resp.data.routes)
           /\ \E k \in 1..Len(log[g].resp.data.routes) :
                  /\ RouteDest(log[g].resp.data.routes[k]) = EmptyText
                  /\ \E m \in MutationsAt(log) :
                         /\ IsAccepted(log[m])
                         /\ log[m].payload[k]
                                = routeEnvelope([log[g].resp.data.routes[k]
                                                     EXCEPT !.No = <<TRUE>>])


(* C34 *)

\* the domain entries of g at which the run stops: a blank entry, or a domain
\* whose lookup fails
Stops(resolver, g) ==
    {j \in 1..Len(g.Domains) :
        \/ TrimSpace(g.Domains[j]) = EmptyText
        \/ FailureOf(resolver, TrimSpace(g.Domains[j])) # ""}

\* the groups a run cannot get through: with domains, and with a gateway
\* setting that is not allowed or an entry at which the run stops
Unresolvable(resolver, groups) ==
    {i \in 1..Len(groups) :
        /\ Len(groups[i].Domains) > 0
        /\ BadGateway(groups[i]) \/ Stops(resolver, groups[i]) # {}}

\* g with the domain entries before entry j only
Before(g, j) == [g EXCEPT !.Domains = SubSeq(@, 1, j - 1)]

\* the hosts of g after the distinct domains of g were looked up
Merged(resolver, g) ==
    Dedupe(PreviousHosts(g) \o DiscoveredFrom(resolver, DistinctDomains(g), 1),
           1, <<>>)

\* what the groups i..(k - 1), which the run got through, add to the summary
RECURSIVE Passed(_, _, _, _)
Passed(resolver, groups, i, k) ==
    IF i >= k THEN Summary(0, 0, 0)
    ELSE LET rest == Passed(resolver, groups, i + 1, k)
             g == groups[i]
         IN  IF Len(g.Domains) = 0 THEN rest
             ELSE Summary(rest.Groups + 1,
                          rest.Domains + Len(DistinctDomains(g)),
                          rest.IPsAdded
                              + Len(Merged(resolver, g)) - Len(PreviousHosts(g)))

\* what the group at which the run fails adds to the summary: nothing when
\* its gateway setting is refused; otherwise the group, its distinct domains
\* up to the entry at which the run stops (that domain too, unless the entry
\* is blank), and the addresses the domains before that entry added
Stopped(resolver, g) ==
    IF BadGateway(g) THEN Summary(0, 0, 0)
    ELSE LET j == First(Stops(resolver, g))
             done == Before(g, j)
         IN  Summary(1,
                     Len(DistinctDomains(done))
                         + (IF TrimSpace(g.Domains[j]) = EmptyText THEN 0 ELSE 1),
                     Len(Merged(resolver, done)) - Len(PreviousHosts(g)))

\* C34: a failed run is not all-or-nothing.  The run fails exactly when there
\* is a group it cannot get through; with k the first such group, group k and
\* all later groups are left exactly as they were, every group before k with
\* domains holds its merged host list (a group without domains is as it
\* was), and the summary returned with the error counts the groups before k
\* with domains, their distinct domains and the hosts they gained, and of
\* group k what was done by the time of the failure
C34_NotAtomic ==
    fn \in {"ResolveDomains", "ResolveAgain"} =>
        LET before == FileGroups(arg.file)
            after == FileGroups(val.file)
            bad == Unresolvable(arg.resolver, before)
        IN  /\ val.err # NoResolveError <=> bad # {}
            /\ bad # {} =>
                  LET k == First(bad)
                      passed == Passed(arg.resolver, before, 1, k)
                      stopped == Stopped(arg.resolver, before[k])
                  IN  /\ Len(after) = Len(before)
                      /\ \A i \in k..Len(before) : after[i] = before[i]
                      /\ \A i \in 1..(k - 1) :
                            after[i] = IF Len(before[i].Domains) = 0 THEN before[i]
                                       ELSE [before[i] EXCEPT
                                               !.Hosts = Merged(arg.resolver, before[i])]
                      /\ val.summary
                            = Summary(passed.Groups + stopped.Groups,
                                      passed.Domains + stopped.Domains,
                                      passed.IPsAdded + stopped.IPsAdded)

\* the first group of two has gained two hosts when the second, after one of
\* its domains gave an address, fails at a literal IPv6 address: the first
\* group keeps its hosts, the second is as it was, and the summary counts
\* both groups, four domains and three additions
C34_Witness ==
    /\ fn = "ResolveDomains"
    /\ val.err.cause = "IPv6 is not supported"
    /\ Len(FileGroups(arg.file)) = 2
    /\ FileGroups(arg.file)[1].Hosts = <<>>
    /\ FileGroups(val.file)[1].Hosts = <<Ip4(<<1, 1, 1, 1>>), Ip4(<<2, 2, 2, 2>>)>>
    /\ FileGroups(arg.file)[2].Domains = <<Junk(1), Ip6(1)>>
    /\ FileGroups(arg.file)[2].Hosts = <<>>
    /\ FileGroups(val.file)[2] = FileGroups(arg.file)[2]
    /\ val.summary = Summary(2, 4, 3)

====
